---- MODULE Spec2Model ----
(***************************************************************************)
(* A model of gutber, a terminal reader for Project Gutenberg books:       *)
(* the text pipeline of gutemberg.go (extraction, chapter segmentation,    *)
(* wrapping, pagination), the author prefix index and the bubbletea update *)
(* loop of the terminal interface (model.Update and its handlers).         *)
(*                                                                         *)
(* Strings are sequences of runes; a rune is a one-character string, or    *)
(* the name of a code point ("U+4E16").  float64 arithmetic is modelled    *)
(* bit by bit (53-bit significand, round to nearest even).                 *)
(***************************************************************************)
EXTENDS Integers, Sequences, FiniteSets, TLC

VARIABLES
    m,          \* the bubbletea model struct (the update loop's state)
    pending,    \* commands dispatched by Update whose message is not yet delivered
    booksDir,   \* the book files present in Config.BooksDir
    stateFile,  \* the contents of Config.StateFile
    quit,       \* tea.Quit was returned
    args,       \* arguments of the library function under check
    result      \* its result

vars == <<m, pending, booksDir, stateFile, quit, args, result>>

None == "none"

Max(a, b) == IF a > b THEN a ELSE b
Min(a, b) == IF a < b THEN a ELSE b

RECURSIVE SumSeq(_)
SumSeq(s) == IF s = <<>> THEN 0 ELSE Head(s) + SumSeq(Tail(s))

Last(s) == s[Len(s)]
Front(s) == SubSeq(s, 1, Len(s) - 1)

(***************************************************************************)
(* Loops.  A for loop over lo..hi that carries an accumulator is a         *)
(* recursive operator: the range is halved at each level, and the first    *)
(* half is evaluated (left = left) before the second half starts from it,  *)
(* so that the evaluation stays shallow.                                   *)
(***************************************************************************)
(***************************************************************************)
(* Runes and strings.  A string is a sequence of runes.  Code is the code  *)
(* point: Go compares strings byte by byte, which for UTF-8 is code point  *)
(* order.                                                                  *)
(***************************************************************************)
Printable ==
    <<" ", "!", "\"", "#", "$", "%", "&", "'", "(", ")", "*", "+", ",", "-",
      ".", "/", "0", "1", "2", "3", "4", "5", "6", "7", "8", "9", ":", ";",
      "<", "=", ">", "?", "@", "A", "B", "C", "D", "E", "F", "G", "H", "I",
      "J", "K", "L", "M", "N", "O", "P", "Q", "R", "S", "T", "U", "V", "W",
      "X", "Y", "Z", "[", "\\", "]", "^", "_", "U+0060", "a", "b", "c", "d", "e",
      "f", "g", "h", "i", "j", "k", "l", "m", "n", "o", "p", "q", "r", "s",
      "t", "u", "v", "w", "x", "y", "z", "{", "|", "}", "~">>

\* the runes of the strings modelled
Runes == {Printable[i] : i \in 1..Len(Printable)} \cup {"\t", "\n", "\f", "\r", "U+0301", "U+4E16"}

CodeOf ==
    [c \in Runes |->
       CASE c = "\t" -> 9
         [] c = "\n" -> 10
         [] c = "\f" -> 12
         [] c = "\r" -> 13
         [] c = "U+0301" -> 769
         [] c = "U+4E16" -> 19990
         [] OTHER -> 31 + (CHOOSE i \in 1..Len(Printable) : Printable[i] = c)]

Code(c) == CodeOf[c]

UpperRunes == {c \in Runes : CodeOf[c] >= 65 /\ CodeOf[c] <= 90}
LetterRunes == UpperRunes \cup {c \in Runes : CodeOf[c] >= 97 /\ CodeOf[c] <= 122}
DigitRunes == {c \in Runes : CodeOf[c] >= 48 /\ CodeOf[c] <= 57}
WordRunes == LetterRunes \cup DigitRunes \cup {"_"}
SpaceRunes == {" ", "\t", "\n", "\f", "\r"}
LowerOf ==
    [c \in Runes |-> IF c \in UpperRunes THEN Printable[CodeOf[c] + 32 - 31] ELSE c]

IsUpper(c) == c \in UpperRunes
IsLetter(c) == c \in LetterRunes
IsDigit(c) == c \in DigitRunes
\* a regexp word character, \w
IsWord(c) == c \in WordRunes
\* unicode.IsSpace on the runes modelled; also the regexp class \s
IsSpace(c) == c \in SpaceRunes

LowerRune(c) == LowerOf[c]

\* runewidth.RuneWidth: a CJK ideograph fills two cells, a combining mark
\* none
RuneWidth(c) == IF c = "U+4E16" THEN 2 ELSE IF c = "U+0301" THEN 0 ELSE 1

ToLower(s) == [i \in 1..Len(s) |-> LowerRune(s[i])]

\* s < t
StrLess(s, t) ==
    \E i \in 1..(Min(Len(s), Len(t)) + 1) :
        /\ \A j \in 1..(i - 1) : s[j] = t[j]
        /\ \/ i > Len(s) /\ i <= Len(t)
           \/ i <= Len(s) /\ i <= Len(t) /\ Code(s[i]) < Code(t[i])

HasPrefix(s, prefix) ==
    /\ Len(prefix) <= Len(s)
    /\ \A i \in 1..Len(prefix) : s[i] = prefix[i]

\* lit occurs in s at position i
MatchAt(s, i, lit) ==
    /\ i >= 1
    /\ i + Len(lit) - 1 <= Len(s)
    /\ \A k \in 1..Len(lit) : s[i + k - 1] = lit[k]

\* the same, letters compared without case: a literal under (?i)
MatchFold(s, i, lit) ==
    /\ i >= 1
    /\ i + Len(lit) - 1 <= Len(s)
    /\ \A k \in 1..Len(lit) : LowerRune(s[i + k - 1]) = LowerRune(lit[k])

\* the least element of a set of positions, 0 when there is none
FirstOf(S) == IF S = {} THEN 0 ELSE CHOOSE i \in S : \A j \in S : i <= j

\* the greatest element of a set of positions, 0 when there is none
LastOf(S) == IF S = {} THEN 0 ELSE CHOOSE i \in S : \A j \in S : j <= i

TrimSpace(s) ==
    LET keep == {i \in 1..Len(s) : ~IsSpace(s[i])}
    IN  IF keep = {} THEN <<>> ELSE SubSeq(s, FirstOf(keep), LastOf(keep))

\* strings.Fields: the maximal runs of non-space runes
FieldsStep(s, acc, i) ==
    IF IsSpace(s[i])
    THEN IF acc.cur = <<>> THEN acc
         ELSE [words |-> Append(acc.words, acc.cur), cur |-> <<>>]
    ELSE [words |-> acc.words, cur |-> Append(acc.cur, s[i])]

RECURSIVE FieldsLoop(_, _, _, _)
FieldsLoop(s, acc, lo, hi) ==
    IF lo > hi THEN acc
    ELSE IF lo = hi THEN FieldsStep(s, acc, lo)
    ELSE LET left == FieldsLoop(s, acc, lo, (lo + hi) \div 2)
         IN  IF left = left THEN FieldsLoop(s, left, (lo + hi) \div 2 + 1, hi)
             ELSE acc

FieldsEnd(st) == IF st.cur = <<>> THEN st.words ELSE Append(st.words, st.cur)

Fields(s) == FieldsEnd(FieldsLoop(s, [words |-> <<>>, cur |-> <<>>], 1, Len(s)))

\* strings.Split(s, sep) for a non-empty sep: the occurrences of sep are
\* taken from the left and do not overlap
SplitStep(s, sep, acc, i) ==
    IF i < acc.next THEN acc
    ELSE IF MatchAt(s, i, sep)
    THEN [parts |-> Append(acc.parts, acc.cur), cur |-> <<>>,
          next |-> i + Len(sep)]
    ELSE [parts |-> acc.parts, cur |-> Append(acc.cur, s[i]), next |-> i + 1]

RECURSIVE SplitLoop(_, _, _, _, _)
SplitLoop(s, sep, acc, lo, hi) ==
    IF lo > hi THEN acc
    ELSE IF lo = hi THEN SplitStep(s, sep, acc, lo)
    ELSE LET left == SplitLoop(s, sep, acc, lo, (lo + hi) \div 2)
         IN  IF left = left THEN SplitLoop(s, sep, left, (lo + hi) \div 2 + 1, hi)
             ELSE acc

SplitEnd(st) == Append(st.parts, st.cur)

Split(s, sep) ==
    SplitEnd(SplitLoop(s, sep, [parts |-> <<>>, cur |-> <<>>, next |-> 1],
                       1, Len(s)))

\* strings.Join
RECURSIVE JoinRange(_, _, _, _)
JoinRange(parts, sep, lo, hi) ==
    IF lo > hi THEN <<>>
    ELSE IF lo = hi THEN parts[lo]
    ELSE JoinRange(parts, sep, lo, (lo + hi) \div 2) \o sep
         \o JoinRange(parts, sep, (lo + hi) \div 2 + 1, hi)

Join(parts, sep) == JoinRange(parts, sep, 1, Len(parts))

\* runewidth.StringWidth
RECURSIVE WidthRange(_, _, _)
WidthRange(s, lo, hi) ==
    IF lo > hi THEN 0
    ELSE IF lo = hi THEN RuneWidth(s[lo])
    ELSE WidthRange(s, lo, (lo + hi) \div 2) + WidthRange(s, (lo + hi) \div 2 + 1, hi)

StringWidth(s) == WidthRange(s, 1, Len(s))

\* the first position at or after i where lit occurs in s ignoring case,
\* 0 when there is none: what a lazy .*? followed by lit finds under (?is)
IndexFold(s, i, lit) == FirstOf({j \in i..Len(s) : MatchFold(s, j, lit)})

\* the first position at or after i that holds the rune c, 0 when none:
\* where [^c]* followed by c ends
IndexRune(s, i, c) == FirstOf({j \in i..Len(s) : s[j] = c})

\* the last position of the run of the rune c that holds position i
RunEnd(s, i, c) ==
    LET stop == FirstOf({j \in i..Len(s) : s[j] # c})
    IN  IF stop = 0 THEN Len(s) ELSE stop - 1

\* <name[^>]*> at position i under (?i): the position of its ">", 0 when
\* no such tag starts at i
OpenTagEnd(s, i, name) ==
    IF MatchFold(s, i, <<"<">> \o name)
    THEN IndexRune(s, i + 1 + Len(name), ">") ELSE 0

\* (?is)<style[^>]*>.*?</style>
StyleMatchEnd(s, i) ==
    LET open == OpenTagEnd(s, i, <<"s", "t", "y", "l", "e">>)
        close == IF open = 0 THEN 0 ELSE IndexFold(s, open + 1, <<"<", "/", "s", "t", "y", "l", "e", ">">>)
    IN  IF close = 0 THEN 0 ELSE close + Len(<<"<", "/", "s", "t", "y", "l", "e", ">">>) - 1

\* (?is)<div\\s+id=\"pg-header\".*?</div> as compiled from the raw string:
\* "<div", a backslash, one or more s, id="<id>", anything, "</div>"
DivMatchEnd(s, i, id) ==
    LET sEnd == IF MatchFold(s, i, <<"<", "d", "i", "v", "\\">>)
                   /\ i + 5 <= Len(s) /\ LowerRune(s[i + 5]) = "s"
                THEN LastOf({j \in (i + 5)..Len(s) :
                               \A k \in (i + 5)..j : LowerRune(s[k]) = "s"})
                ELSE 0
        \* the backtracking over s+ finds the attribute after any number,
        \* at least one, of the s
        attr == IF sEnd = 0 THEN 0
                ELSE FirstOf({j \in (i + 6)..(sEnd + 1) : MatchFold(s, j, id)})
        close == IF attr = 0 THEN 0 ELSE IndexFold(s, attr + Len(id), <<"<", "/", "d", "i", "v", ">">>)
    IN  IF close = 0 THEN 0 ELSE close + Len(<<"<", "/", "d", "i", "v", ">">>) - 1

\* (?i)<\s*tag\b[^>]*> at position i: the position of its ">", 0 when the
\* pattern does not match there
TagMatchEnd(s, i, tag) ==
    LET nameAt == IF i <= Len(s) /\ s[i] = "<"
                  THEN FirstOf({j \in (i + 1)..Len(s) : ~IsSpace(s[j])}) ELSE 0
        after == nameAt + Len(tag)
    IN  IF /\ nameAt # 0
           /\ MatchFold(s, nameAt, tag)
           \* \b: the tag name ends in a word character
           /\ (after > Len(s) \/ ~IsWord(s[after]))
        THEN IndexRune(s, after, ">")
        ELSE 0

\* the compiled patterns of the text extraction
LiteralPattern(lit) == [kind |-> "literal", lit |-> lit]
\* c{n,}
RunPattern(c, n) == [kind |-> "run", rune |-> c, min |-> n]
TagPattern(tag) == [kind |-> "tag", tag |-> tag]
StylePattern == [kind |-> "style"]
DivPattern(attr) == [kind |-> "div", attr |-> attr]

\* the last position of the match of pat that starts at i, 0 when no
\* match starts there
MatchEnd(pat, s, i) ==
    CASE pat.kind = "literal" ->
           IF MatchAt(s, i, pat.lit) THEN i + Len(pat.lit) - 1 ELSE 0
      [] pat.kind = "run" ->
           IF s[i] = pat.rune /\ RunEnd(s, i, pat.rune) - i + 1 >= pat.min
           THEN RunEnd(s, i, pat.rune) ELSE 0
      [] pat.kind = "tag" -> TagMatchEnd(s, i, pat.tag)
      [] pat.kind = "style" -> StyleMatchEnd(s, i)
      [] pat.kind = "div" -> DivMatchEnd(s, i, pat.attr)

ReplaceStep(s, pat, repl, acc, i, e) ==
    IF e > 0 THEN [out |-> acc.out \o repl, next |-> e + 1]
    ELSE [out |-> Append(acc.out, s[i]), next |-> i + 1]

RECURSIVE ReplaceLoop(_, _, _, _, _, _)
ReplaceLoop(s, pat, repl, acc, lo, hi) ==
    IF lo > hi THEN acc
    ELSE IF lo = hi
    THEN IF lo < acc.next THEN acc
         ELSE ReplaceStep(s, pat, repl, acc, lo, MatchEnd(pat, s, lo))
    ELSE LET left == ReplaceLoop(s, pat, repl, acc, lo, (lo + hi) \div 2)
         IN  IF left = left
             THEN ReplaceLoop(s, pat, repl, left, (lo + hi) \div 2 + 1, hi)
             ELSE acc

\* strings.ReplaceAll and regexp ReplaceAllString for a pattern whose
\* matches are never empty: the matches are taken from the left and do not
\* overlap
ReplaceAll(s, pat, repl) ==
    ReplaceLoop(s, pat, repl, [out |-> <<>>, next |-> 1], 1, Len(s)).out

stripHTMLSection(input, pat) == ReplaceAll(input, pat, <<>>)

\* (?i)<\s*tag\b[^>]*>
replaceAllTag(input, tag, replacement) ==
    ReplaceAll(input, TagPattern(tag), replacement)

(***************************************************************************)
(* Text extraction: cleanHTMLToText and its steps                          *)
(***************************************************************************)
paragraphBreak == <<"\n", "\n">>

Newline == <<"\n">>

\* stripTagsStep that writes a ">" read outside a tag
stripTagsStepKeepStray(input, acc, i) ==
    CASE input[i] = "<" -> [out |-> acc.out, inTag |-> TRUE]
      [] input[i] = ">" /\ acc.inTag -> [out |-> acc.out, inTag |-> FALSE]
      [] OTHER -> IF ~acc.inTag
                  THEN [out |-> Append(acc.out, input[i]), inTag |-> acc.inTag]
                  ELSE acc

stripTagsStep(input, acc, i) ==
    CASE input[i] = "<" -> [out |-> acc.out, inTag |-> TRUE]
      [] input[i] = ">" -> [out |-> acc.out, inTag |-> FALSE]
      [] OTHER -> IF ~acc.inTag
                  THEN [out |-> Append(acc.out, input[i]), inTag |-> acc.inTag]
                  ELSE acc

RECURSIVE stripTagsLoop(_, _, _, _)
stripTagsLoop(input, acc, lo, hi) ==
    IF lo > hi THEN acc
    ELSE IF lo = hi THEN stripTagsStep(input, acc, lo)
    ELSE LET left == stripTagsLoop(input, acc, lo, (lo + hi) \div 2)
         IN  IF left = left
             THEN stripTagsLoop(input, left, (lo + hi) \div 2 + 1, hi)
             ELSE acc

stripTags(input) ==
    stripTagsLoop(input, [out |-> <<>>, inTag |-> FALSE], 1, Len(input)).out

\* html's entity table, restricted to the named entities modelled; each is
\* listed with and without its semicolon, as in the table
EntityNames ==
    <<<<"a", "m", "p", ";">>, <<"a", "m", "p">>, <<"l", "t", ";">>, <<"l", "t">>, <<"g", "t", ";">>, <<"g", "t">>,
      <<"q", "u", "o", "t", ";">>,
      <<"q", "u", "o", "t">>>>

EntityRunes == <<"&", "&", "<", "<", ">", ">", "\"", "\"">>

\* entity[name], None when the table has no such name
EntityOf(name) ==
    LET k == FirstOf({i \in 1..Len(EntityNames) : EntityNames[i] = name})
    IN  IF k = 0 THEN None ELSE EntityRunes[k]

longestEntityWithoutSemicolon == 6

\* html.unescapeEntity (attribute = false) at the "&" at position i:
\* the rune decoded and the number of runes consumed, "&" included;
\* n = 0 when nothing is decoded
\* the entity decoded from entityName, the text between the "&" and the end
\* of the run of letters and digits with its ";" if one follows: the whole
\* name when the table has it, or else its longest prefix of the table
DecodeEntity(entityName, whole, j) ==
    IF Len(entityName) = 0 THEN [rune |-> None, n |-> 0]
    ELSE IF whole # None THEN [rune |-> whole, n |-> Len(entityName) + 1]
    ELSE IF j # 0
    THEN [rune |-> EntityOf(SubSeq(entityName, 1, j)), n |-> j + 1]
    ELSE [rune |-> None, n |-> 0]

LongestEntityPrefix(entityName) ==
    LastOf({k \in 2..Min(Len(entityName) - 1, longestEntityWithoutSemicolon) :
              EntityOf(SubSeq(entityName, 1, k)) # None})

EntityNameAt(s, i, stop) ==
    SubSeq(s, i + 1, IF stop = 0 THEN Len(s)
                     ELSE IF s[stop] = ";" THEN stop ELSE stop - 1)

DecodeName(entityName) ==
    DecodeEntity(entityName, EntityOf(entityName), LongestEntityPrefix(entityName))

unescapeEntity(s, i) ==
    DecodeName(EntityNameAt(s, i,
        FirstOf({j \in (i + 1)..Len(s) : ~(IsLetter(s[j]) \/ IsDigit(s[j]))})))

\* html.UnescapeString
UnescapeStep(s, acc, i, entity) ==
    IF s[i] = "&" /\ entity.n > 0
    THEN [out |-> Append(acc.out, entity.rune), next |-> i + entity.n]
    ELSE [out |-> Append(acc.out, s[i]), next |-> i + 1]

RECURSIVE UnescapeLoop(_, _, _, _)
UnescapeLoop(s, acc, lo, hi) ==
    IF lo > hi THEN acc
    ELSE IF lo = hi
    THEN IF lo < acc.next THEN acc
         ELSE UnescapeStep(s, acc, lo, unescapeEntity(s, lo))
    ELSE LET left == UnescapeLoop(s, acc, lo, (lo + hi) \div 2)
         IN  IF left = left THEN UnescapeLoop(s, left, (lo + hi) \div 2 + 1, hi)
             ELSE acc

UnescapeString(s) == UnescapeLoop(s, [out |-> <<>>, next |-> 1], 1, Len(s)).out

JoinFields(fields) == IF Len(fields) = 0 THEN <<>> ELSE Join(fields, <<" ">>)

compactSpaces(input) == JoinFields(Fields(input))

TrimLines(lines) ==
    [i \in 1..Len(lines) |-> TrimSpace(compactSpaces(lines[i]))]

\* the last step replaces \n{3,} by the paragraph break
normalizeWhitespace(input) ==
    TrimSpace(ReplaceAll(Join(TrimLines(Split(input, Newline)), Newline),
                         RunPattern("\n", 3), paragraphBreak))

StartMarker == <<"S", "T", "A", "R", "T", " ", "O", "F", " ", "T", "H", "E", " ", "P",
      "R", "O", "J", "E", "C", "T", " ", "G", "U", "T", "E", "N", "B",
      "E", "R", "G">>

EndMarker == <<"E", "N", "D", " ", "O", "F", " ", "T", "H", "E", " ", "P", "R", "O",
      "J", "E", "C", "T", " ", "G", "U", "T", "E", "N", "B", "E", "R",
      "G">>

HeaderLine == <<"T", "h", "e", " ", "P", "r", "o", "j", "e", "c", "t", " ", "G", "u",
      "t", "e", "n", "b", "e", "r", "g", " ", "e", "B", "o", "o", "k",
      " ", "o", "f">>

\* the marker patterns of stripGutenbergBoilerplate, as compiled: in the raw
\* string, \\* is "a backslash, any number of times" and \\s* is "a
\* backslash, then any number of s", so the pattern is
\*     (\)* (\)* (\)* \ s* <marker> .*? (\)* (\)* (\)*     under (?i)
\* MarkerMatch is the first and last position of the match that starts at i
\* (last = 0 when none does): a run of backslashes, any number of s, the
\* marker, nothing for the lazy .*?, and the backslashes that follow
MarkerMatch(text, i, marker) ==
    LET b == RunEnd(text, i, "\\")
        lit == FirstOf({j \in (b + 1)..Len(text) :
                          /\ MatchFold(text, j, marker)
                          /\ \A k \in (b + 1)..(j - 1) : LowerRune(text[k]) = "s"})
        after == lit + Len(marker)
    IN  IF i > Len(text) \/ text[i] # "\\" \/ lit = 0 THEN [first |-> i, last |-> 0]
        ELSE [first |-> i,
              last |-> IF after <= Len(text) /\ text[after] = "\\"
                       THEN RunEnd(text, after, "\\") ELSE after - 1]

\* regexp FindStringIndex: the leftmost match
FindMarker(text, marker) ==
    LET i == FirstOf({j \in 1..Len(text) : MarkerMatch(text, j, marker).last > 0})
    IN  IF i = 0 THEN [first |-> 0, last |-> 0] ELSE MarkerMatch(text, i, marker)

\* text from the end of the match loc on, all of it when nothing matched
AfterMatch(text, loc) ==
    IF loc.last > 0 THEN SubSeq(text, loc.last + 1, Len(text)) ELSE text

\* text up to the start of the match loc, all of it when nothing matched
BeforeMatch(text, loc) ==
    IF loc.last > 0 THEN SubSeq(text, 1, loc.first - 1) ELSE text

\* (?m)^The Project Gutenberg eBook of.*$ replaced by nothing
DropHeaderLines(lines) ==
    Join([i \in 1..Len(lines) |->
            IF HasPrefix(lines[i], HeaderLine) THEN <<>> ELSE lines[i]], Newline)

\* stripGutenbergBoilerplate once the start marker is cut
StripFromEndMarker(text) ==
    normalizeWhitespace(DropHeaderLines(
        Split(BeforeMatch(text, FindMarker(text, EndMarker)), Newline)))

stripGutenbergBoilerplate(text) ==
    IF text = <<>> THEN text
    ELSE StripFromEndMarker(AfterMatch(text, FindMarker(text, StartMarker)))

PgHeaderAttr == <<"i", "d", "=", "\"", "p", "g", "-", "h", "e", "a", "d", "e", "r",
      "\"">>

PgFooterAttr == <<"i", "d", "=", "\"", "p", "g", "-", "f", "o", "o", "t", "e", "r",
      "\"">>

Rule(pat, repl) == [pat |-> pat, repl |-> repl]

\* the replacements cleanHTMLToText makes before it strips the tags, in
\* its order: the two of strings.ReplaceAll, the three of stripHTMLSection
\* and the four of replaceAllTag
Replacements ==
    <<Rule(LiteralPattern(<<"\r", "\n">>), Newline),
      Rule(LiteralPattern(<<"\r">>), Newline),
      Rule(StylePattern, <<>>),
      Rule(DivPattern(PgHeaderAttr), <<>>),
      Rule(DivPattern(PgFooterAttr), <<>>),
      Rule(TagPattern(<<"b", "r">>), Newline),
      Rule(TagPattern(<<"/", "p">>), paragraphBreak),
      Rule(TagPattern(<<"p">>), <<>>),
      Rule(TagPattern(<<"h", "r">>), Newline)>>

\* the first n replacements made one after the other
RECURSIVE ReplaceEach(_, _)
ReplaceEach(input, n) ==
    IF n = 0 THEN input
    ELSE ReplaceAll(ReplaceEach(input, n - 1),
                    Replacements[n].pat, Replacements[n].repl)

cleanHTMLToText(input) ==
    stripGutenbergBoilerplate(normalizeWhitespace(UnescapeString(stripTags(
        ReplaceEach(input, Len(Replacements))))))

cleanInlineText(input) == TrimSpace(UnescapeString(stripTags(input)))

(***************************************************************************)
(* Books: segmentation, wrapping, pagination                               *)
(***************************************************************************)
Untitled == <<"U", "n", "t", "i", "t", "l", "e", "d">>

TitleOpen == <<"<", "t", "i", "t", "l", "e", ">">>

TitleClose == <<"<", "/", "t", "i", "t", "l", "e", ">">>

\* (?is)<title>(.*?)</title>, the first match
extractTitle(data) ==
    LET open == IndexFold(data, 1, TitleOpen)
        close == IF open = 0 THEN 0
                 ELSE IndexFold(data, open + Len(TitleOpen), TitleClose)
    IN  IF close = 0 THEN <<>>
        ELSE TrimSpace(UnescapeString(stripTags(
                 SubSeq(data, open + Len(TitleOpen), close - 1))))

HeadingLevels == {"1", "2", "3"}

\* </h[1-3]> at position j under (?i)
HeadingCloseAt(s, j) ==
    /\ MatchFold(s, j, <<"<", "/", "h">>)
    /\ j + 4 <= Len(s)
    /\ s[j + 3] \in HeadingLevels
    /\ s[j + 4] = ">"

\* (?is)<h[1-3][^>]*>(.*?)</h[1-3]> at position i: the match that starts
\* there (m0..m1 the match, m2..m3 the group), m1 = 0 when there is none
HeadingMatch(s, i) ==
    LET gt == IF MatchFold(s, i, <<"<", "h">>)
                 /\ i + 2 <= Len(s) /\ s[i + 2] \in HeadingLevels
              THEN IndexRune(s, i + 3, ">") ELSE 0
        close == IF gt = 0 THEN 0
                 ELSE FirstOf({j \in (gt + 1)..Len(s) : HeadingCloseAt(s, j)})
    IN  IF close = 0 THEN [m0 |-> i, m1 |-> 0, m2 |-> 0, m3 |-> 0]
        ELSE [m0 |-> i, m1 |-> close + 4, m2 |-> gt + 1, m3 |-> close - 1]

\* regexp FindAllSubmatchIndex: the matches from the left, not overlapping
HeadingMatchesStep(acc, i, found) ==
    IF i < acc.next \/ found.m1 = 0 THEN acc
    ELSE [matches |-> Append(acc.matches, found), next |-> found.m1 + 1]

RECURSIVE HeadingMatchesLoop(_, _, _, _)
HeadingMatchesLoop(s, acc, lo, hi) ==
    IF lo > hi THEN acc
    ELSE IF lo = hi THEN HeadingMatchesStep(acc, lo, HeadingMatch(s, lo))
    ELSE LET left == HeadingMatchesLoop(s, acc, lo, (lo + hi) \div 2)
         IN  IF left = left
             THEN HeadingMatchesLoop(s, left, (lo + hi) \div 2 + 1, hi)
             ELSE acc

HeadingMatches(s) ==
    HeadingMatchesLoop(s, [matches |-> <<>>, next |-> 1], 1, Len(s)).matches

\* the chapter of the i-th heading: its text runs to the next heading or
\* to the end of the document
ChapterAt(data, matches, i) ==
    [Title |-> cleanInlineText(SubSeq(data, matches[i].m2, matches[i].m3)),
     Text |-> cleanHTMLToText(
                  SubSeq(data, matches[i].m1 + 1,
                         IF i + 1 <= Len(matches)
                         THEN matches[i + 1].m0 - 1 ELSE Len(data))),
     StartPage |-> 0]

\* a chapter whose text is blank is skipped
AppendChapter(acc, chapter) ==
    IF TrimSpace(chapter.Text) = <<>> THEN acc ELSE Append(acc, chapter)

RECURSIVE ChaptersLoop(_, _, _, _, _)
ChaptersLoop(data, matches, acc, lo, hi) ==
    IF lo > hi THEN acc
    ELSE IF lo = hi THEN AppendChapter(acc, ChapterAt(data, matches, lo))
    ELSE LET left == ChaptersLoop(data, matches, acc, lo, (lo + hi) \div 2)
         IN  IF left = left
             THEN ChaptersLoop(data, matches, left, (lo + hi) \div 2 + 1, hi)
             ELSE acc

ChaptersOf(data, matches) == ChaptersLoop(data, matches, <<>>, 1, Len(matches))

\* fewer than two chapters are no chapters (nil)
AtLeastTwo(chapters) == IF Len(chapters) <= 1 THEN <<>> ELSE chapters

\* extractChaptersFromHTML that gives up only when no chapter is found
extractChaptersKeepOne(data) == ChaptersOf(data, HeadingMatches(data))

\* the chapters of a document, <<>> (nil) when fewer than two are found
extractChaptersFromHTML(data) == AtLeastTwo(ChaptersOf(data, HeadingMatches(data)))

\* one word of wrapParagraph's loop
wrapWord(acc, w, wordWidth, width) ==
    IF acc.lineLen = 0
    THEN [b |-> acc.b \o w, lineLen |-> wordWidth]
    ELSE IF acc.lineLen + 1 + wordWidth > width
    THEN [b |-> acc.b \o Newline \o w, lineLen |-> wordWidth]
    ELSE [b |-> acc.b \o <<" ">> \o w, lineLen |-> acc.lineLen + 1 + wordWidth]

RECURSIVE wrapLoop(_, _, _, _, _)
wrapLoop(words, width, acc, lo, hi) ==
    IF lo > hi THEN acc
    ELSE IF lo = hi
    THEN wrapWord(acc, words[lo], StringWidth(words[lo]), width)
    ELSE LET left == wrapLoop(words, width, acc, lo, (lo + hi) \div 2)
         IN  IF left = left
             THEN wrapLoop(words, width, left, (lo + hi) \div 2 + 1, hi)
             ELSE acc

wrapWords(words, width) ==
    wrapLoop(words, width, [b |-> <<>>, lineLen |-> 0], 1, Len(words)).b

wrapParagraph(text, width) == wrapWords(Fields(text), width)

\* one paragraph of wrapText's loop: a blank one is skipped
wrapPart(acc, p, width) ==
    IF p = <<>> THEN acc ELSE Append(acc, wrapParagraph(p, width))

RECURSIVE wrapTextLoop(_, _, _, _, _)
wrapTextLoop(parts, width, acc, lo, hi) ==
    IF lo > hi THEN acc
    ELSE IF lo = hi THEN wrapPart(acc, TrimSpace(parts[lo]), width)
    ELSE LET left == wrapTextLoop(parts, width, acc, lo, (lo + hi) \div 2)
         IN  IF left = left
             THEN wrapTextLoop(parts, width, left, (lo + hi) \div 2 + 1, hi)
             ELSE acc

wrapParts(parts, width) ==
    Join(wrapTextLoop(parts, width, <<>>, 1, Len(parts)), paragraphBreak)

wrapText(text, width) == wrapParts(Split(text, paragraphBreak), width)

\* PageOf that leaves the page's leading and trailing blank lines in place
PageOfUntrimmed(lines, linesPerPage, k) ==
    Join(SubSeq(lines, (k - 1) * linesPerPage + 1,
                Min(k * linesPerPage, Len(lines))), Newline)

\* the page-grouping loop advances by linesPerPage; a step that is not
\* positive never ends, and the result is None
\* the k-th page of the display lines
PageOf(lines, linesPerPage, k) ==
    TrimSpace(Join(SubSeq(lines, (k - 1) * linesPerPage + 1,
                          Min(k * linesPerPage, Len(lines))), Newline))

PagesOf(lines, linesPerPage) ==
    [k \in 1..((Len(lines) + linesPerPage - 1) \div linesPerPage) |->
        PageOf(lines, linesPerPage, k)]

paginate(text, linesPerPage, lineWidth) ==
    IF TrimSpace(text) = <<>> THEN <<>>
    ELSE IF linesPerPage <= 0 THEN None
    ELSE PagesOf(Split(wrapText(text, lineWidth), Newline), linesPerPage)

MinBuildWidth == 20
MinBuildLines == 5

\* the pages of a book and its chapters with their StartPage
ChapterPages(chapter, l, w) ==
    paginate(TrimSpace(chapter.Title \o paragraphBreak \o chapter.Text), l, w)

\* appendChapterPages with the text that was paginated stored as the
\* chapter's text
appendChapterPagesTrimmedText(acc, chapter, chapterPages) ==
    [pages |-> acc.pages \o chapterPages,
     chapters |-> Append(acc.chapters,
         [chapter EXCEPT !.StartPage = Len(acc.pages),
                         !.Text = TrimSpace(chapter.Title \o paragraphBreak
                                            \o chapter.Text)])]

\* appendChapterPages with the header kept in the chapter's text
appendChapterPagesKeepHeader(acc, chapter, chapterPages) ==
    [pages |-> acc.pages \o chapterPages,
     chapters |-> Append(acc.chapters,
         [chapter EXCEPT !.StartPage = Len(acc.pages),
                         !.Text = chapter.Title \o paragraphBreak \o chapter.Text])]

\* appendChapterPages with StartPage taken after the chapter's pages are
\* appended
appendChapterPagesStartAfter(acc, chapter, chapterPages) ==
    [pages |-> acc.pages \o chapterPages,
     chapters |-> Append(acc.chapters,
         [chapter EXCEPT !.StartPage = Len(acc.pages) + Len(chapterPages)])]

\* one chapter of buildBookPagesForSize's loop: StartPage is the number of
\* pages before the chapter's own
appendChapterPages(acc, chapter, chapterPages) ==
    [pages |-> acc.pages \o chapterPages,
     chapters |-> Append(acc.chapters,
         [chapter EXCEPT !.StartPage = Len(acc.pages)])]

RECURSIVE buildLoop(_, _, _, _, _, _)
buildLoop(chapters, l, w, acc, lo, hi) ==
    IF lo > hi THEN acc
    ELSE IF lo = hi
    THEN appendChapterPages(acc, chapters[lo], ChapterPages(chapters[lo], l, w))
    ELSE LET left == buildLoop(chapters, l, w, acc, lo, (lo + hi) \div 2)
         IN  IF left = left
             THEN buildLoop(chapters, l, w, left, (lo + hi) \div 2 + 1, hi)
             ELSE acc

BuiltPair(st) == <<st.pages, st.chapters>>

\* buildBookPagesForSize without the floor of the width
buildBookPagesForSizeNoWidthFloor(book, width, lines) ==
    BuiltPair(buildLoop(book.Chapters,
                        IF lines < MinBuildLines THEN MinBuildLines ELSE lines,
                        width,
                        [pages |-> <<>>, chapters |-> <<>>],
                        1, Len(book.Chapters)))

\* the pages of a book and its chapters with their StartPage
buildBookPagesForSize(book, width, lines) ==
    BuiltPair(buildLoop(book.Chapters,
                        IF lines < MinBuildLines THEN MinBuildLines ELSE lines,
                        IF width < MinBuildWidth THEN MinBuildWidth ELSE width,
                        [pages |-> <<>>, chapters |-> <<>>],
                        1, Len(book.Chapters)))

\* loadBookFromHTML once the file is read: data is its contents
TitleOr(found) == IF found = <<>> THEN Untitled ELSE found

\* ChaptersOr without the chapter of the whole document
ChaptersOrNone(found, title, data) == found

\* the whole document is the one chapter when no chapters are found
ChaptersOr(found, title, data) ==
    IF Len(found) = 0
    THEN <<[Title |-> title, Text |-> cleanHTMLToText(data), StartPage |-> 0]>>
    ELSE found

BookOf(title, built) == [Title |-> title, Chapters |-> built[2], Pages |-> built[1]]

BookTitled(title, data, width, lines) ==
    BookOf(title,
           buildBookPagesForSize(
               [Title |-> title,
                Chapters |-> ChaptersOr(extractChaptersFromHTML(data), title, data),
                Pages |-> <<>>], width, lines))

loadBookFromHTML(data, width, lines) ==
    BookTitled(TitleOr(extractTitle(data)), data, width, lines)

(***************************************************************************)
(* float64: a positive finite value is mant / 2^frac with mant a sequence  *)
(* of SignificandBits bits, most significant first, whose first bit is 1;  *)
(* zero is the empty significand.                                          *)
(***************************************************************************)
SignificandBits == 53

RECURSIVE BitsOf(_)
BitsOf(n) == IF n = 0 THEN <<>> ELSE Append(BitsOf(n \div 2), n % 2)

RECURSIVE BitsToIntUpTo(_, _)
BitsToIntUpTo(bits, n) ==
    IF n = 0 THEN 0 ELSE 2 * BitsToIntUpTo(bits, n - 1) + bits[n]

BitsToInt(bits) == BitsToIntUpTo(bits, Len(bits))

\* the next n bits of the binary expansion of r/d (r < d) and the remainder left
FracStep(st, d) ==
    [bits |-> Append(st.bits, (2 * st.rem) \div d), rem |-> (2 * st.rem) % d]

RECURSIVE FracLoop(_, _, _)
FracLoop(st, d, n) ==
    IF n <= 0 THEN st
    ELSE LET next == FracStep(st, d)
         IN  IF next = next THEN FracLoop(next, d, n - 1) ELSE st

FracBits(r, d, n) == FracLoop([bits |-> <<>>, rem |-> r], d, n)

RECURSIVE LeadingZeros(_, _)
\* the number of zero bits that open the binary expansion of r/d (0 < r < d)
LeadingZeros(r, d) == IF 2 * r >= d THEN 0 ELSE 1 + LeadingZeros(2 * r, d)

RECURSIVE Pow2(_)
Pow2(n) == IF n = 0 THEN 1 ELSE 2 * Pow2(n - 1)

\* bits + 1; a carry out of the top bit lengthens the sequence by one
\* the last zero bit becomes 1 and the ones after it 0
CarryInto(bits, k) ==
    [i \in 1..Len(bits) |-> IF i < k THEN bits[i] ELSE IF i = k THEN 1 ELSE 0]

LastZero(bits) ==
    CHOOSE k \in 0..Len(bits) :
        /\ k > 0 => bits[k] = 0
        /\ \A j \in (k + 1)..Len(bits) : bits[j] = 1

IncBits(bits) ==
    IF LastZero(bits) = 0 THEN <<1>> \o [i \in 1..Len(bits) |-> 0]
    ELSE CarryInto(bits, LastZero(bits))

\* round a significand up or not; a carry out renormalises (1000..0, one
\* fraction bit fewer)
Renormalise(mant, frac, inc) ==
    IF Len(inc) > Len(mant) THEN [mant |-> Front(inc), frac |-> frac - 1]
    ELSE [mant |-> inc, frac |-> frac]

FloatRound(mant, frac, up) ==
    IF ~up THEN [mant |-> mant, frac |-> frac]
    ELSE Renormalise(mant, frac, IncBits(mant))

FloatZero == [mant |-> <<>>, frac |-> 0]

\* float64(a) / float64(b) for integers a >= 0, b > 0 (both exactly
\* representable): the quotient rounded to nearest, ties to even
\* round to nearest, ties to even: rem is what the kept bits leave of the
\* quotient, in units of 1/b of the last kept bit
DivRound(mant, frac, rem, b) ==
    FloatRound(mant, frac, \/ 2 * rem > b
                           \/ 2 * rem = b /\ Last(mant) = 1)

DivFrom(ib, fb, frac, b) == DivRound(ib \o fb.bits, frac, fb.rem, b)

\* ib the bits of the integer part, r0 the remainder, z the zero bits
\* skipped when the integer part is zero
DivBits(ib, r0, b, z) ==
    DivFrom(ib, FracBits(r0 * Pow2(z), b, SignificandBits - Len(ib)),
            z + SignificandBits - Len(ib), b)

FloatDiv(a, b) ==
    IF a = 0 THEN FloatZero
    ELSE DivBits(BitsOf(a \div b), a % b, b,
                 IF a \div b > 0 THEN 0 ELSE LeadingZeros(a % b, b))

\* the bits of bits * n, least significant bit first in the loop
MulStep(acc, v) ==
    [bits |-> <<v % 2>> \o acc.bits, carry |-> v \div 2]

RECURSIVE MulLoop(_, _, _, _)
MulLoop(bits, n, acc, j) ==
    IF j > Len(bits) THEN acc
    ELSE LET next == MulStep(acc, bits[Len(bits) + 1 - j] * n + acc.carry)
         IN  IF next = next THEN MulLoop(bits, n, next, j + 1) ELSE acc

MulJoin(st) == BitsOf(st.carry) \o st.bits

MulBits(bits, n) == MulJoin(MulLoop(bits, n, [bits |-> <<>>, carry |-> 0], 1))

\* x * float64(n) for an integer n > 0: the exact product rounded to
\* nearest, ties to even
\* p the exact product: its first SignificandBits bits are kept, the
\* dropped ones decide the rounding
MulRound(p, frac, d) ==
    FloatRound(SubSeq(p, 1, SignificandBits), frac - d,
               /\ d > 0
               /\ p[SignificandBits + 1] = 1
               /\ \/ \E i \in 2..d : p[SignificandBits + i] = 1
                  \/ p[SignificandBits] = 1)

MulFrom(p, frac) == MulRound(p, frac, Len(p) - SignificandBits)

FloatMulInt(x, n) ==
    IF x.mant = <<>> THEN FloatZero ELSE MulFrom(MulBits(x.mant, n), x.frac)

\* int(x) for a float64 x >= 0 below 2^31: truncation
FloatToInt(x) ==
    IF x.mant = <<>> \/ x.frac >= SignificandBits THEN 0
    ELSE BitsToInt(SubSeq(x.mant, 1, SignificandBits - x.frac))

(***************************************************************************)
(* remapPage and computePageLayout                                         *)
(***************************************************************************)
pageLineCount == 25
pageLineWidth == 80

MinPageWidth == 40
MinPageLines == 10

\* the range applyFontScale keeps the font scale in
MaxFontScale == 5

\* ClampPage without the clamp to the last page
ClampPageNoCeiling(newPage, newTotal) == IF newPage < 0 THEN 0 ELSE newPage

ClampPage(newPage, newTotal) ==
    IF newPage < 0 THEN 0
    ELSE IF newPage >= newTotal THEN newTotal - 1
    ELSE newPage

remapPage(oldPage, oldTotal, newTotal) ==
    IF oldTotal <= 0 \/ newTotal <= 0 THEN 0
    ELSE ClampPage(FloatToInt(FloatMulInt(FloatDiv(oldPage, oldTotal), newTotal)),
                   newTotal)

\* computePageLayout with the floors brought down to 20 columns and 5 lines
computePageLayoutLowFloors(width, height, scale) ==
    LET baseWidth == IF width > 0 THEN width - 4 ELSE pageLineWidth
        baseLines == IF height > 0 THEN height - 8 ELSE pageLineCount
        pageWidth == baseWidth - (scale * 4)
        pageLines == baseLines - (scale * 2)
    IN  <<IF pageWidth < 20 THEN 20 ELSE pageWidth,
          IF pageLines < 5 THEN 5 ELSE pageLines>>

computePageLayout(width, height, scale) ==
    LET baseWidth == IF width > 0 THEN width - 4 ELSE pageLineWidth
        baseLines == IF height > 0 THEN height - 8 ELSE pageLineCount
        pageWidth == baseWidth - (scale * 4)
        pageLines == baseLines - (scale * 2)
    IN  <<IF pageWidth < MinPageWidth THEN MinPageWidth ELSE pageWidth,
          IF pageLines < MinPageLines THEN MinPageLines ELSE pageLines>>

(***************************************************************************)
(* The author index and its prefix search                                  *)
(***************************************************************************)
\* the author names of the embedded list: its lines, trimmed, blanks dropped
AppendAuthor(acc, name) == IF name = <<>> THEN acc ELSE Append(acc, name)

RECURSIVE AuthorsLoop(_, _, _, _)
AuthorsLoop(lines, acc, lo, hi) ==
    IF lo > hi THEN acc
    ELSE IF lo = hi THEN AppendAuthor(acc, TrimSpace(lines[lo]))
    ELSE LET left == AuthorsLoop(lines, acc, lo, (lo + hi) \div 2)
         IN  IF left = left
             THEN AuthorsLoop(lines, left, (lo + hi) \div 2 + 1, hi)
             ELSE acc

AuthorsOf(lines) == AuthorsLoop(lines, <<>>, 1, Len(lines))

loadAuthorsFromEmbedded(data) == AuthorsOf(Split(data, Newline))

\* newModel's search keys: the names lowercased, in the order given
authorsLowerOf(authors) == [i \in 1..Len(authors) |-> ToLower(authors[i])]

\* sort.Search(n, f): binary search for the least i in 0..n-1 with f(i),
\* n when there is none; keys are indexed from 1 here, so f reads key i+1
RECURSIVE SearchLoop(_, _, _, _)
SearchLoop(keys, prefix, i, j) ==
    IF i >= j THEN i
    ELSE LET h == (i + j) \div 2
         IN  IF StrLess(keys[h + 1], prefix)
             THEN SearchLoop(keys, prefix, h + 1, j)
             ELSE SearchLoop(keys, prefix, i, h)

sortSearch(keys, prefix) == SearchLoop(keys, prefix, 0, Len(keys))

\* the scan of filterAuthors from index i (0-based) with items collected
RECURSIVE ScanFrom(_, _, _, _, _, _)
ScanFrom(authors, authorsLower, prefix, limit, i, items) ==
    IF i >= Len(authorsLower) THEN items
    ELSE IF ~HasPrefix(authorsLower[i + 1], prefix) THEN items
    ELSE LET more == Append(items, authors[i + 1])
         IN  IF limit > 0 /\ Len(more) >= limit THEN more
             ELSE ScanFrom(authors, authorsLower, prefix, limit, i + 1, more)

\* filterAuthors without its test for the empty prefix
filterAuthorsNoEmptyTest(authors, authorsLower, prefix0, limit) ==
    LET prefix == TrimSpace(ToLower(prefix0))
        start == sortSearch(authorsLower, prefix)
    IN  IF limit < 0 THEN [panic |-> TRUE, items |-> <<>>]
        ELSE [panic |-> FALSE,
              items |-> ScanFrom(authors, authorsLower, prefix, limit, start, <<>>)]

\* filterAuthors with a scan that starts one entry late
filterAuthorsLateStart(authors, authorsLower, prefix0, limit) ==
    LET prefix == TrimSpace(ToLower(prefix0))
        start == sortSearch(authorsLower, prefix) + 1
    IN  IF prefix = <<>> THEN [panic |-> FALSE, items |-> <<>>]
        ELSE IF limit < 0 THEN [panic |-> TRUE, items |-> <<>>]
        ELSE [panic |-> FALSE,
              items |-> ScanFrom(authors, authorsLower, prefix, limit, start, <<>>)]

\* filterAuthors: make([]list.Item, 0, limit) panics when limit < 0
filterPrefix(authors, authorsLower, prefix, limit) ==
    IF prefix = <<>> THEN [panic |-> FALSE, items |-> <<>>]
    ELSE IF limit < 0 THEN [panic |-> TRUE, items |-> <<>>]
    ELSE [panic |-> FALSE,
          items |-> ScanFrom(authors, authorsLower, prefix, limit,
                             sortSearch(authorsLower, prefix), <<>>)]

filterAuthors(authors, authorsLower, prefix0, limit) ==
    filterPrefix(authors, authorsLower, TrimSpace(ToLower(prefix0)), limit)

(***************************************************************************)
(* Files, the library listing and the persisted reading state              *)
(***************************************************************************)
HasSuffix(s, suffix) ==
    /\ Len(suffix) <= Len(s)
    /\ SubSeq(s, Len(s) - Len(suffix) + 1, Len(s)) = suffix

TrimSuffix(s, suffix) ==
    IF HasSuffix(s, suffix) THEN SubSeq(s, 1, Len(s) - Len(suffix)) ELSE s

HtmlSuffix == <<".", "h", "t", "m", "l">>

ImagesSuffix == <<".", "i", "m", "a", "g", "e", "s">>

\* filepath.Join(dir, name)
JoinPath(dir, name) == dir \o <<"/">> \o name

\* filepath.Base of a path under a directory
BaseName(path) ==
    SubSeq(path, LastOf({i \in 1..Len(path) : path[i] = "/"}) + 1, Len(path))

\* Config.BooksDir
BooksDir == <<"d">>

\* the library title of a file name
libraryTitle(name) ==
    LET title == TrimSuffix(TrimSuffix(name, HtmlSuffix), ImagesSuffix)
    IN  [i \in 1..Len(title) |-> IF title[i] = "_" THEN " " ELSE title[i]]

\* sort.Slice by title: the items of a set in ascending order of title
RECURSIVE SortByTitle(_)
SortByTitle(items) ==
    IF items = {} THEN <<>>
    ELSE LET first == CHOOSE x \in items :
                        \A y \in items : ~StrLess(y.title, x.title)
         IN  <<first>> \o SortByTitle(items \ {first})

\* loadLibraryItems: the .html and .html.images files of the directory
loadLibraryItems(files) ==
    SortByTitle({[title |-> libraryTitle(name), path |-> JoinPath(BooksDir, name)] :
                   name \in {f \in files : HasSuffix(f, HtmlSuffix)
                                           \/ HasSuffix(f, HtmlSuffix \o ImagesSuffix)}})

\* map[string]int: a function on the keys present; reading an absent key
\* gives 0
MapGet(pages, key) == IF key \in DOMAIN pages THEN pages[key] ELSE 0

MapSet(pages, key, value) ==
    [k \in DOMAIN pages \cup {key} |-> IF k = key THEN value ELSE pages[k]]

EmptyMap == [k \in {} |-> 0]

\* saveState: the JSON object written; current_book and pages are left out
\* when empty (omitempty)
saveState(state) ==
    [page |-> <<state.Page>>,
     current_book |-> IF state.CurrentBook = <<>> THEN <<>>
                      ELSE <<state.CurrentBook>>,
     pages |-> IF DOMAIN state.Pages = {} THEN <<>> ELSE <<state.Pages>>]

\* loadState: the State read from the file; file is <<>> for a file that is
\* absent and <<contents>> otherwise
loadState(file) ==
    IF file = <<>> THEN [CurrentBook |-> <<>>, Pages |-> EmptyMap, Page |-> 0]
    ELSE [CurrentBook |-> IF file[1].current_book = <<>> THEN <<>>
                          ELSE file[1].current_book[1],
          Pages |-> IF file[1].pages = <<>> THEN EmptyMap ELSE file[1].pages[1],
          Page |-> file[1].page[1]]

(***************************************************************************)
(* The terminal interface: the model struct, its views and its handlers    *)
(***************************************************************************)
\* the zero Book
NoBook == [Title |-> <<>>, Chapters |-> <<>>, Pages |-> <<>>]

\* textinput.Model.Update: the value after a message.  A key that is one
\* rune is typed (up to CharLimit runes), backspace deletes the last rune
CharLimit == 80

RuneKeys == {"a", "b", "c", "q", "s", "+", "-", " "}

textinputUpdate(value, msg) ==
    IF msg.type # "key" THEN value
    ELSE IF msg.key \in RuneKeys
    THEN IF Len(value) < CharLimit THEN Append(value, msg.key) ELSE value
    ELSE IF msg.key = "backspace" /\ Len(value) > 0 THEN Front(value)
    ELSE value

\* the items filterAuthors gives the author list (its limit here, 200, is
\* never negative)
AuthorSearchLimit == 200

authorItems(mm, value) ==
    filterAuthors(mm.authors, mm.authorsLower, value, AuthorSearchLimit).items

\* buildChapterItems with the chapters counted from 1
buildChapterItemsFromOne(book) ==
    [i \in 1..Len(book.Chapters) |->
        [title |-> <<i, IF book.Chapters[i].Title = <<>>
                        THEN <<"Chapter", i>> ELSE book.Chapters[i].Title>>,
         index |-> i]]

buildChapterItems(book) ==
    [i \in 1..Len(book.Chapters) |->
        [title |-> <<i, IF book.Chapters[i].Title = <<>>
                        THEN <<"Chapter", i>> ELSE book.Chapters[i].Title>>,
         index |-> i - 1]]

\* commands (tea.Cmd): what Update hands back to be run concurrently
NoCmd == [type |-> "none"]
QuitCmd == [type |-> "quit"]
saveStateCmd(state) ==
    [type |-> "saveState", CurrentBook |-> state.CurrentBook, Page |-> state.Page]
openBookCmd(path, width, lines) ==
    [type |-> "openBook", path |-> path, width |-> width, lines |-> lines]
fetchBooksCmd(author) == [type |-> "fetchBooks", author |-> author]
downloadAndLoadCmd(item, width, lines) ==
    [type |-> "downloadAndLoad", url |-> item.url, author |-> item.subtitle,
     title |-> item.title, width |-> width, lines |-> lines]

\* what a handler returns: the new model and a command
Ret(mm, cmd) == [m |-> mm, cmd |-> cmd]

\* readerView: indexing the page list outside its range panics
readerView(mm) ==
    IF Len(mm.currentBook.Pages) = 0
    THEN [panic |-> FALSE, content |-> <<"No pages available.">>]
    ELSE IF mm.state.Page < 0 \/ mm.state.Page >= Len(mm.currentBook.Pages)
    THEN [panic |-> TRUE, content |-> <<>>]
    ELSE [panic |-> FALSE,
          content |-> <<mm.currentBook.Title, mm.state.Page + 1,
                        Len(mm.currentBook.Pages),
                        mm.currentBook.Pages[mm.state.Page + 1]>>]

View(mm) ==
    IF mm.mode = "modeReader" THEN readerView(mm)
    ELSE [panic |-> FALSE, content |-> <<mm.mode, mm.status>>]

\* the item under a list's cursor: sel, an index into the items chosen by
\* the user's earlier cursor keys; none when the list is empty
HasSelected(items, sel) == sel \in 1..Len(items)

updateAuthorSearch(mm, msg, sel) ==
    LET prev == mm.authorInput
        value == textinputUpdate(prev, msg)
        m1 == IF value # prev
              THEN [mm EXCEPT !.authorInput = value,
                              !.authorList = authorItems(mm, value)]
              ELSE mm
    IN  IF msg.type # "key" THEN Ret(m1, NoCmd)
        ELSE IF msg.key = "enter" /\ HasSelected(m1.authorList, sel)
        THEN Ret([m1 EXCEPT !.status = "Searching books..."],
                 fetchBooksCmd(m1.authorList[sel]))
        ELSE IF msg.key = "enter" /\ TrimSpace(m1.authorInput) = <<>>
        THEN Ret([m1 EXCEPT !.status = "Enter a prefix to search"], NoCmd)
        ELSE IF msg.key = "b" THEN Ret([m1 EXCEPT !.mode = "modeLibrary"], NoCmd)
        ELSE IF msg.key \in {"esc", "ctrl+c", "q"} THEN Ret(m1, QuitCmd)
        ELSE Ret(m1, NoCmd)

updateLibrary(mm, msg, sel) ==
    IF msg.type # "key" THEN Ret(mm, NoCmd)
    ELSE IF msg.key = "enter" /\ HasSelected(mm.libraryList, sel)
    THEN Ret([mm EXCEPT !.status = "Loading book..."],
             openBookCmd(mm.libraryList[sel].path, mm.pageWidth, mm.pageLines))
    ELSE IF msg.key = "s" THEN Ret([mm EXCEPT !.mode = "modeAuthorSearch"], NoCmd)
    ELSE IF msg.key = "b" /\ mm.state.CurrentBook # <<>>
            /\ Len(mm.currentBook.Pages) > 0
    THEN Ret([mm EXCEPT !.mode = "modeReader"], NoCmd)
    ELSE IF msg.key = "c" /\ Len(mm.currentBook.Chapters) > 0
    THEN Ret([mm EXCEPT !.mode = "modeChapters"], NoCmd)
    ELSE IF msg.key \in {"esc", "q", "ctrl+c"} THEN Ret(mm, QuitCmd)
    ELSE Ret(mm, NoCmd)

updateBooks(mm, msg, sel) ==
    IF msg.type # "key" THEN Ret(mm, NoCmd)
    ELSE IF msg.key = "enter" /\ HasSelected(mm.bookList, sel)
    THEN Ret([mm EXCEPT !.status = "Downloading book..."],
             downloadAndLoadCmd(mm.bookList[sel], mm.pageWidth, mm.pageLines))
    ELSE IF msg.key = "b" THEN Ret([mm EXCEPT !.mode = "modeLibrary"], NoCmd)
    ELSE IF msg.key = "s" THEN Ret([mm EXCEPT !.mode = "modeAuthorSearch"], NoCmd)
    ELSE IF msg.key \in {"esc", "q", "ctrl+c"} THEN Ret(mm, QuitCmd)
    ELSE Ret(mm, NoCmd)

\* ClampScale without its two tests
ClampScaleOff(scale) == scale

\* if m.fontScale > 5 { m.fontScale = 5 }; if m.fontScale < -5 { ... = -5 }
ClampScale(scale) ==
    IF scale > MaxFontScale THEN MaxFontScale
    ELSE IF scale < -MaxFontScale THEN -MaxFontScale
    ELSE scale

\* the font scale clamped to [-5, 5], then the layout and, when it changed,
\* the pages and the page index
applyFontScale(mm) ==
    LET scale == ClampScale(mm.fontScale)
        layout == computePageLayout(mm.width, mm.height, scale)
        m1 == [mm EXCEPT !.fontScale = scale]
    IN  IF layout[1] = mm.pageWidth /\ layout[2] = mm.pageLines THEN m1
        ELSE LET oldTotal == Len(mm.currentBook.Pages)
                 oldPage == mm.state.Page
                 m2 == [m1 EXCEPT !.pageWidth = layout[1], !.pageLines = layout[2]]
             IN  IF Len(mm.currentBook.Chapters) = 0 THEN m2
                 ELSE LET built == buildBookPagesForSize(mm.currentBook,
                                                         layout[1], layout[2])
                          total == Len(built[1])
                          m3 == [m2 EXCEPT !.currentBook.Pages = built[1],
                                           !.currentBook.Chapters = built[2]]
                      IN  IF oldTotal > 0 /\ total > 0
                          THEN [m3 EXCEPT !.state.Page =
                                              remapPage(oldPage, oldTotal, total)]
                          ELSE IF total > 0 /\ oldPage >= total
                          THEN [m3 EXCEPT !.state.Page = total - 1]
                          ELSE m3

\* MoveTo without the index stored for the current book
MoveToNoRecord(mm, page) ==
    Ret([mm EXCEPT !.state.Page = page],
        saveStateCmd([mm.state EXCEPT !.Page = page]))

\* a page move of the reader: the index is stored for the current book too
MoveTo(mm, page) ==
    LET m1 == [mm EXCEPT !.state.Page = page,
                         !.state.Pages = MapSet(mm.state.Pages,
                                                mm.state.CurrentBook, page)]
    IN  Ret(m1, saveStateCmd(m1.state))

CmdAfterScale(m1) == Ret(m1, saveStateCmd(m1.state))

updateReader(mm, msg) ==
    IF msg.type # "key" THEN Ret(mm, NoCmd)
    ELSE IF msg.key \in {"q", "ctrl+c"} THEN Ret(mm, QuitCmd)
    ELSE IF msg.key = "b" THEN Ret([mm EXCEPT !.mode = "modeLibrary"], NoCmd)
    ELSE IF msg.key = "s" THEN Ret([mm EXCEPT !.mode = "modeAuthorSearch"], NoCmd)
    ELSE IF msg.key = "c" /\ Len(mm.currentBook.Chapters) > 0
    THEN Ret([mm EXCEPT !.mode = "modeChapters"], NoCmd)
    ELSE IF msg.key \in {"+", "="}
    THEN CmdAfterScale(applyFontScale([mm EXCEPT !.fontScale = mm.fontScale + 1]))
    ELSE IF msg.key = "-"
    THEN CmdAfterScale(applyFontScale([mm EXCEPT !.fontScale = mm.fontScale - 1]))
    ELSE IF msg.key \in {"enter", " ", "right", "down", "pgdown"}
            /\ mm.state.Page < Len(mm.currentBook.Pages) - 1
    THEN MoveTo(mm, mm.state.Page + 1)
    ELSE IF msg.key \in {"left", "up", "pgup"} /\ mm.state.Page > 0
    THEN MoveTo(mm, mm.state.Page - 1)
    ELSE IF msg.key = "home" THEN MoveTo(mm, 0)
    ELSE IF msg.key = "end" /\ Len(mm.currentBook.Pages) > 0
    THEN MoveTo(mm, Len(mm.currentBook.Pages) - 1)
    ELSE Ret(mm, NoCmd)

updateChapters(mm, msg, sel) ==
    IF msg.type # "key" THEN Ret(mm, NoCmd)
    ELSE IF msg.key = "enter" /\ HasSelected(mm.chapterList, sel)
            /\ mm.chapterList[sel].index >= 0
            /\ mm.chapterList[sel].index < Len(mm.currentBook.Chapters)
    THEN MoveTo([mm EXCEPT !.mode = "modeReader"],
                mm.currentBook.Chapters[mm.chapterList[sel].index + 1].StartPage)
    ELSE IF msg.key \in {"b", "esc"} THEN Ret([mm EXCEPT !.mode = "modeReader"], NoCmd)
    ELSE IF msg.key \in {"q", "ctrl+c"} THEN Ret(mm, QuitCmd)
    ELSE Ret(mm, NoCmd)

\* Failed with a save of the state as its command
FailedAndSaved(mm, err) ==
    Ret([mm EXCEPT !.err = err, !.status = err], saveStateCmd(mm.state))

\* a message that carries an error: m.err = msg.err, m.status =
\* msg.err.Error(), return m, nil
Failed(mm, err) == Ret([mm EXCEPT !.err = err, !.status = err], NoCmd)

\* model.Update: the message handlers, then the handler of the mode.  files
\* is the content of the books directory when the message is handled
Update(mm, msg, sel, files) ==
    IF msg.type = "err" THEN Failed(mm, msg.err)
    ELSE IF msg.type = "books" /\ msg.err # None THEN Failed(mm, msg.err)
    ELSE IF msg.type = "books"
    THEN Ret([mm EXCEPT !.bookList = msg.items, !.mode = "modeBooks",
                        !.status = <<Len(msg.items), "books">>], NoCmd)
    ELSE IF msg.type = "bookLoaded" /\ msg.err # None THEN Failed(mm, msg.err)
    ELSE IF msg.type = "bookLoaded"
    THEN LET m1 == [mm EXCEPT !.currentBook = msg.book,
                              !.state.CurrentBook = msg.path,
                              !.state.Page = MapGet(mm.state.Pages, msg.path),
                              !.mode = "modeReader",
                              !.status = "",
                              !.chapterList = buildChapterItems(msg.book),
                              !.libraryList = loadLibraryItems(files)]
         IN  Ret(m1, saveStateCmd(m1.state))
    ELSE LET layout == IF msg.type = "windowSize"
                       THEN computePageLayout(msg.width, msg.height, mm.fontScale)
                       ELSE <<mm.pageWidth, mm.pageLines>>
             m1 == IF msg.type = "windowSize"
                   THEN [mm EXCEPT !.width = msg.width, !.height = msg.height]
                   ELSE mm
         IN  IF layout[1] # mm.pageWidth \/ layout[2] # mm.pageLines
             THEN LET oldTotal == Len(mm.currentBook.Pages)
                      oldPage == mm.state.Page
                      m2 == [m1 EXCEPT !.pageWidth = layout[1],
                                       !.pageLines = layout[2]]
                  IN  IF Len(mm.currentBook.Chapters) = 0
                      THEN Ret(m2, saveStateCmd(m2.state))
                      ELSE LET built == buildBookPagesForSize(mm.currentBook,
                                                              layout[1], layout[2])
                               total == Len(built[1])
                               m3 == [m2 EXCEPT !.currentBook.Pages = built[1],
                                                !.currentBook.Chapters = built[2]]
                               m4 == IF oldTotal > 0 /\ total > 0
                                     THEN [m3 EXCEPT !.state.Page =
                                              remapPage(oldPage, oldTotal, total)]
                                     ELSE IF total > 0 /\ oldPage >= total
                                     THEN [m3 EXCEPT !.state.Page = total - 1]
                                     ELSE m3
                           IN  Ret(m4, saveStateCmd(m4.state))
             ELSE IF m1.mode = "modeAuthorSearch" THEN updateAuthorSearch(m1, msg, sel)
             ELSE IF m1.mode = "modeLibrary" THEN updateLibrary(m1, msg, sel)
             ELSE IF m1.mode = "modeBooks" THEN updateBooks(m1, msg, sel)
             ELSE IF m1.mode = "modeReader" THEN updateReader(m1, msg)
             ELSE IF m1.mode = "modeChapters" THEN updateChapters(m1, msg, sel)
             ELSE Ret(m1, NoCmd)

(***************************************************************************)
(* The world of the program: the books on disk and on the site, the author *)
(* list built into the binary                                              *)
(***************************************************************************)
\* the one file the books directory can hold: the book of the site's search
\* results, downloaded before
LocalName == <<"A", "u", "-", "B", ".", "h", "t", "m", "l">>

\* a book of two chapters: three pages at 10 lines a page, two at 12 or more
LocalDocument ==
    <<"<", "t", "i", "t", "l", "e", ">", "T", "<", "/", "t", "i", "t", "l", "e", ">",
      "<", "h", "1", ">", "A", "<", "/", "h", "1", ">",
      "<", "p", ">", "a", "<", "/", "p", ">", "<", "p", ">", "b", "<", "/", "p", ">",
      "<", "p", ">", "c", "<", "/", "p", ">", "<", "p", ">", "d", "<", "/", "p", ">",
      "<", "p", ">", "e", "<", "/", "p", ">",
      "<", "h", "2", ">", "B", "<", "/", "h", "2", ">", "c">>

\* the one book of the site's search results; its text is the text of the
\* file, which a download writes again
RemoteBook ==
    [title |-> <<"B">>, url |-> <<"/", "e", "b", "o", "o", "k", "s", "/", "1">>,
     subtitle |-> <<"A", "u">>, extra |-> <<>>]

RemoteReadNowURL == <<"/", "e", "/", "1", ".", "h", "t", "m", "l">>

RemoteDocument == LocalDocument

\* all.txt
AuthorsData == <<"A", "u", "\n", "b", "\n">>

\* every rune that is not a letter or a digit becomes "_"
MapRunes(trimmed) ==
    [i \in 1..Len(trimmed) |->
        IF IsLetter(trimmed[i]) \/ IsDigit(trimmed[i]) THEN trimmed[i] ELSE "_"]

\* strings.Trim(name, "_")
TrimUnderscores(name) ==
    IF \A i \in 1..Len(name) : name[i] = "_" THEN <<>>
    ELSE SubSeq(name, FirstOf({i \in 1..Len(name) : name[i] # "_"}),
                LastOf({i \in 1..Len(name) : name[i] # "_"}))

\* for strings.Contains(name, "__") { ReplaceAll(name, "__", "_") } leaves
\* one "_" of every run
sanitizeFilename(input) ==
    TrimUnderscores(ReplaceAll(MapRunes(TrimSpace(input)), RunPattern("_", 2), <<"_">>))

fileNameFromURL(href) ==
    LET last == LastOf({i \in 1..Len(href) : href[i] # "/"})
    IN  BaseName(SubSeq(href, 1, last))

FileNameOf(author, title, href) ==
    IF author # <<>> /\ title # <<>> THEN author \o <<"-">> \o title \o HtmlSuffix
    ELSE IF title # <<>> THEN title \o HtmlSuffix
    ELSE fileNameFromURL(href)

buildBookFileName(author0, title0, href) ==
    FileNameOf(sanitizeFilename(author0), sanitizeFilename(title0), href)

\* the file downloadBookHTML writes for a search result
FileNameOr(fileName) ==
    IF fileName = <<>> THEN <<"b", "o", "o", "k">> \o HtmlSuffix ELSE fileName

downloadedName(author, title) ==
    FileNameOr(buildBookFileName(author, title, RemoteReadNowURL))

\* os.ReadFile: the file's contents
FileData(name) == IF name = LocalName THEN LocalDocument ELSE RemoteDocument

(***************************************************************************)
(* The update loop: bubbletea delivers one message at a time to Update and *)
(* runs each command it returns concurrently                               *)
(***************************************************************************)
MaxPending == 1
MaxInput == 1
MaxZoom == 1

\* the window size the terminal reports once it is known (0 by 0 before)
WindowSizes == {<<44, 18>>}

\* the keys pressed: one of each case of the handlers, and "backspace",
\* which only the prefix input handles
Keys ==
    {"enter", "esc", "q", "b", "s", "c", "+", "-", "right", "left", "home",
     "end", "backspace"}

\* the geometries the window sizes and font scales lead to
LoopGeometries ==
    {computePageLayout(size[1], size[2], scale) :
       size \in WindowSizes \cup {<<0, 0>>},
       scale \in -MaxFontScale..MaxFontScale}

\* loadBookFromHTML on the files of the world, kept for every geometry of
\* the loop
LoadedBooks ==
    [name \in {LocalName}, g \in LoopGeometries |->
        loadBookFromHTML(FileData(name), g[1], g[2])]

LoadedBook(name, width, lines) ==
    IF name = LocalName /\ <<width, lines>> \in LoopGeometries
    THEN LoadedBooks[name, <<width, lines>>]
    ELSE loadBookFromHTML(FileData(name), width, lines)

\* os.Stat / os.ReadFile succeed for the files of the books directory
FileExists(path, files) == \E name \in files : JoinPath(BooksDir, name) = path

\* the book newModel restores: the state's current book when its file is
\* there, paginated for the default page
RestoredBook(state, files) ==
    IF state.CurrentBook # <<>> /\ FileExists(state.CurrentBook, files)
    THEN <<LoadedBook(BaseName(state.CurrentBook), pageLineWidth, pageLineCount)>>
    ELSE <<>>

initialModel(state, authors, libraryItems, restored) ==
    [mode |-> IF restored # <<>> THEN "modeReader"
              ELSE IF Len(libraryItems) > 0 THEN "modeLibrary"
              ELSE "modeAuthorSearch",
     authorInput |-> <<>>,
     authorList |-> <<>>,
     authors |-> authors,
     authorsLower |-> authorsLowerOf(authors),
     libraryList |-> libraryItems,
     bookList |-> <<>>,
     chapterList |-> buildChapterItems(IF restored # <<>> THEN restored[1] ELSE NoBook),
     currentBook |-> IF restored # <<>> THEN restored[1] ELSE NoBook,
     state |-> IF restored # <<>>
               THEN [state EXCEPT !.Page = MapGet(state.Pages, state.CurrentBook)]
               ELSE state,
     status |-> "",
     err |-> None,
     width |-> 0,
     height |-> 0,
     pageWidth |-> pageLineWidth,
     pageLines |-> pageLineCount,
     fontScale |-> 0]

newModel(state, authors, files) ==
    initialModel(state, authors, loadLibraryItems(files), RestoredBook(state, files))

\* main: the state file and the author list are read, the model is built
Start(file, files) ==
    newModel(loadState(file), loadAuthorsFromEmbedded(AuthorsData), files)

Init ==
    /\ booksDir \in {{}, {LocalName}}
    /\ stateFile = <<>>
    /\ m = Start(stateFile, booksDir)
    /\ pending = <<>>
    /\ quit = FALSE
    /\ args = <<>>
    /\ result = <<>>

\* the program runs until tea.Quit or a panic of View
Running == ~quit /\ ~View(m).panic

\* commands are of two kinds, the writes of the state file and the reads of
\* the site and of the books directory: MaxPending of each kind are in flight
SameKind(c, d) == (c.type = "saveState") = (d.type = "saveState")

\* Update has handled a message: its model is the next one and its command
\* is started
StartedWithin(r, rest, max) ==
    /\ r.cmd.type \notin {"none", "quit"}
         => Cardinality({i \in 1..Len(rest) : SameKind(rest[i], r.cmd)}) < max
    /\ m' = r.m
    /\ pending' = IF r.cmd.type \in {"none", "quit"} THEN rest
                  ELSE Append(rest, r.cmd)
    /\ quit' = (r.cmd.type = "quit")

Started(r, rest) == StartedWithin(r, rest, MaxPending)

\* the loop is followed while the prefix typed is short
Delivered(r, rest) ==
    /\ Len(r.m.authorInput) <= MaxInput
    /\ Started(r, rest)

\* and, with the site and its downloads, while the font scale is small
Handled(r, rest) ==
    /\ r.m.fontScale \in -MaxZoom..MaxZoom
    /\ Delivered(r, rest)

KeyMsg(key) == [type |-> "key", key |-> key]

\* the indices a list's cursor can be at
Cursor(items) == IF Len(items) = 0 THEN {0} ELSE 1..Len(items)

\* the list whose cursor the mode's handler reads
ListOf(mm) ==
    IF mm.mode = "modeAuthorSearch" THEN mm.authorList
    ELSE IF mm.mode = "modeLibrary" THEN mm.libraryList
    ELSE IF mm.mode = "modeBooks" THEN mm.bookList
    ELSE IF mm.mode = "modeChapters" THEN mm.chapterList
    ELSE <<>>

\* the prefix input takes the letters "b" and "q" for every rune
KeysIn(mode) ==
    IF mode = "modeAuthorSearch" THEN Keys \ {"s", "c", "+", "-"} ELSE Keys

KeyIn(mode) ==
    /\ Running
    /\ m.mode = mode
    /\ \E key \in KeysIn(mode), sel \in Cursor(ListOf(m)) :
         Handled(Update(m, KeyMsg(key), sel, booksDir), pending)
    /\ UNCHANGED <<booksDir, stateFile, args, result>>

KeyAuthorSearch == KeyIn("modeAuthorSearch")
KeyLibrary == KeyIn("modeLibrary")
KeyBooks == KeyIn("modeBooks")
KeyReader == KeyIn("modeReader")
KeyChapters == KeyIn("modeChapters")

WindowSize ==
    /\ Running
    /\ \E size \in WindowSizes :
         Handled(Update(m, [type |-> "windowSize", width |-> size[1],
                            height |-> size[2]], 0, booksDir), pending)
    /\ UNCHANGED <<booksDir, stateFile, args, result>>

\* pending without its i-th command
Without(i) == SubSeq(pending, 1, i - 1) \o SubSeq(pending, i + 1, Len(pending))

Is(i, type) == i \in 1..Len(pending) /\ pending[i].type = type

BookLoadedMsg(book, path, err) ==
    [type |-> "bookLoaded", book |-> book, path |-> path, err |-> err]

\* openBookCmd's function has run: the file was read and paginated with the
\* width and lines taken when the command was made
OpenedMsg(cmd, files) ==
    IF FileExists(cmd.path, files)
    THEN BookLoadedMsg(LoadedBook(BaseName(cmd.path), cmd.width, cmd.lines),
                       cmd.path, None)
    ELSE BookLoadedMsg(NoBook, <<>>, "no such file")

BookOpened ==
    /\ Running
    /\ \E i \in 1..Len(pending) :
         /\ Is(i, "openBook")
         /\ Handled(Update(m, OpenedMsg(pending[i], booksDir), 0, booksDir),
                    Without(i))
    /\ UNCHANGED <<booksDir, stateFile, args, result>>

\* downloadAndLoadCmd's function has run: the download failed, or the file
\* was written to the books directory, read and paginated
DownloadedMsg(cmd, name, ok) ==
    IF ok
    THEN BookLoadedMsg(LoadedBook(name, cmd.width, cmd.lines),
                       JoinPath(BooksDir, name), None)
    ELSE BookLoadedMsg(NoBook, <<>>, "unexpected status")

\* the download of the file called name: files is the books directory after
Downloaded(i, name, ok, files) ==
    /\ booksDir' = files
    /\ Handled(Update(m, DownloadedMsg(pending[i], name, ok), 0, files), Without(i))

DownloadOf(i, name, ok) ==
    Downloaded(i, name, ok, IF ok THEN booksDir \cup {name} ELSE booksDir)

BookDownloaded ==
    /\ Running
    /\ \E i \in 1..Len(pending), ok \in BOOLEAN :
         /\ Is(i, "downloadAndLoad")
         /\ DownloadOf(i, downloadedName(pending[i].author, pending[i].title), ok)
    /\ UNCHANGED <<stateFile, args, result>>

\* fetchBooksCmd's function has run: the search failed or gave its results
BooksFetched ==
    /\ Running
    /\ \E i \in 1..Len(pending),
          msg \in {[type |-> "books", items |-> <<>>, err |-> "unexpected status"],
                   [type |-> "books", items |-> <<>>, err |-> None],
                   [type |-> "books", items |-> <<RemoteBook>>, err |-> None]} :
         /\ Is(i, "fetchBooks")
         /\ Handled(Update(m, msg, 0, booksDir), Without(i))
    /\ UNCHANGED <<booksDir, stateFile, args, result>>

\* saveStateCmd's function has run.  Its State is the copy made when the
\* command was built, but the Pages map of the copy is the map of the model
\* (a Go map is a reference): what is written is the map as it is now.  The
\* state file is writable: os.WriteFile succeeds and the message is nil
StateSaved ==
    /\ Running
    /\ \E i \in 1..Len(pending) :
         /\ Is(i, "saveState")
         /\ stateFile' = <<saveState([CurrentBook |-> pending[i].CurrentBook,
                                      Pages |-> m.state.Pages,
                                      Page |-> pending[i].Page])>>
         /\ Handled(Ret(m, NoCmd), Without(i))
    /\ UNCHANGED <<booksDir, args, result>>

\* the program has ended (quit, or the panic of a view) and is started again
Restart ==
    /\ ~Running
    /\ m' = Start(stateFile, booksDir)
    /\ pending' = <<>>
    /\ quit' = FALSE
    /\ UNCHANGED <<booksDir, stateFile, args, result>>

Next ==
    \/ KeyAuthorSearch
    \/ KeyLibrary
    \/ KeyBooks
    \/ KeyReader
    \/ KeyChapters
    \/ WindowSize
    \/ BookOpened
    \/ BookDownloaded
    \/ BooksFetched
    \/ StateSaved
    \/ Restart

Spec == Init /\ [][Next]_vars

(***************************************************************************)
(* The update loop without the site, at every font scale.  The program     *)
(* starts with no state file, or with the file an earlier run left after   *)
(* its reader reached the second page of the book; the book may have been  *)
(* removed from the books directory since.  Keys are pressed in the        *)
(* library, the reader and the chapter list.                               *)
(***************************************************************************)
LeftState ==
    <<saveState([CurrentBook |-> JoinPath(BooksDir, LocalName),
                 Pages |-> MapSet(EmptyMap, JoinPath(BooksDir, LocalName), 1),
                 Page |-> 1])>>

InitZoom ==
    /\ booksDir \in {{}, {LocalName}}
    /\ stateFile \in {<<>>, LeftState}
    /\ m = Start(stateFile, booksDir)
    /\ pending = <<>>
    /\ quit = FALSE
    /\ args = <<>>
    /\ result = <<>>

ZoomKeyIn(mode) ==
    /\ Running
    /\ m.mode = mode
    /\ \E key \in Keys, sel \in Cursor(ListOf(m)) :
         Delivered(Update(m, KeyMsg(key), sel, booksDir), pending)
    /\ UNCHANGED <<booksDir, stateFile, args, result>>

ZoomKeyLibrary == ZoomKeyIn("modeLibrary")
ZoomKeyReader == ZoomKeyIn("modeReader")
ZoomKeyChapters == ZoomKeyIn("modeChapters")

ZoomWindowSize ==
    /\ Running
    /\ \E size \in WindowSizes :
         Delivered(Update(m, [type |-> "windowSize", width |-> size[1],
                              height |-> size[2]], 0, booksDir), pending)
    /\ UNCHANGED <<booksDir, stateFile, args, result>>

ZoomBookOpened ==
    /\ Running
    /\ \E i \in 1..Len(pending) :
         /\ Is(i, "openBook")
         /\ Delivered(Update(m, OpenedMsg(pending[i], booksDir), 0, booksDir),
                      Without(i))
    /\ UNCHANGED <<booksDir, stateFile, args, result>>

ZoomStateSaved ==
    /\ Running
    /\ \E i \in 1..Len(pending) :
         /\ Is(i, "saveState")
         /\ stateFile' = <<saveState([CurrentBook |-> pending[i].CurrentBook,
                                      Pages |-> m.state.Pages,
                                      Page |-> pending[i].Page])>>
         /\ Delivered(Ret(m, NoCmd), Without(i))
    /\ UNCHANGED <<booksDir, args, result>>

NextZoom ==
    \/ ZoomKeyLibrary
    \/ ZoomKeyReader
    \/ ZoomKeyChapters
    \/ ZoomWindowSize
    \/ ZoomBookOpened
    \/ ZoomStateSaved
    \/ Restart

SpecZoom == InitZoom /\ [][NextZoom]_vars

(***************************************************************************)
(* The reader and its saves.  The program was started on the state file an *)
(* earlier run left, with the book there; the reader moves through the     *)
(* pages and the window changes its size, each a save of the state, and up *)
(* to MaxSaves saves are in flight, each run in a goroutine of its own:    *)
(* they end in any order.                                                  *)
(***************************************************************************)
MaxSaves == 2

SaveKeys == {"right", "left", "home", "end"}

InitSaves ==
    /\ booksDir = {LocalName}
    /\ stateFile = LeftState
    /\ m = Start(stateFile, booksDir)
    /\ pending = <<>>
    /\ quit = FALSE
    /\ args = <<>>
    /\ result = <<>>

\* a save in flight: the command, the Pages map as it was when the command
\* was built, whether its json.MarshalIndent has begun to read the map, the
\* map as it was then, and whether the loop has written the map since
SaveTask(cmd, pages) ==
    [cmd |-> cmd, snapshot |-> pages, reading |-> FALSE, seen |-> pages,
     raced |-> FALSE]

\* the loop writes the map: the saves that are reading it race with the write
AfterWrite(tasks) ==
    [i \in 1..Len(tasks) |->
        IF tasks[i].reading THEN [tasks[i] EXCEPT !.raced = TRUE] ELSE tasks[i]]

\* Update has returned r: every page move that returns a save has written
\* m.state.Pages[m.state.CurrentBook] before
Dispatched(r, wrote) ==
    /\ r.cmd.type = "saveState" => Len(pending) < MaxSaves
    /\ m' = r.m
    /\ pending' = IF r.cmd.type # "saveState" THEN pending
                  ELSE Append(IF wrote THEN AfterWrite(pending) ELSE pending,
                              SaveTask(r.cmd, r.m.state.Pages))

ReaderMoves ==
    /\ Running
    /\ m.mode = "modeReader"
    /\ \E key \in SaveKeys : Dispatched(Update(m, KeyMsg(key), 0, booksDir), TRUE)
    /\ UNCHANGED <<booksDir, stateFile, quit, args, result>>

WindowResized ==
    /\ Running
    /\ \E size \in WindowSizes :
         Dispatched(Update(m, [type |-> "windowSize", width |-> size[1],
                               height |-> size[2]], 0, booksDir), FALSE)
    /\ UNCHANGED <<booksDir, stateFile, quit, args, result>>

\* the goroutine of a save begins: json.MarshalIndent reads the state, and
\* through it the Pages map of the model
SaveReads ==
    /\ Running
    /\ \E i \in 1..Len(pending) :
         /\ ~pending[i].reading
         /\ pending' = [pending EXCEPT ![i].reading = TRUE,
                                       ![i].seen = m.state.Pages]
    /\ UNCHANGED <<m, booksDir, stateFile, quit, args, result>>

\* what a save that read the map can have read of it: the map as it was
\* when the read began, and, when the loop wrote the map during the read,
\* the map as it is now
ReadOf(task, pages) == IF task.raced THEN {task.seen, pages} ELSE {task.seen}

\* os.WriteFile: the CurrentBook and Page of the save's copy of the state
\* and the map it read
SaveWritten ==
    /\ Running
    /\ \E i \in 1..Len(pending) :
         /\ pending[i].reading
         /\ \E pages \in ReadOf(pending[i], m.state.Pages) :
              stateFile' = <<saveState([CurrentBook |-> pending[i].cmd.CurrentBook,
                                        Pages |-> pages,
                                        Page |-> pending[i].cmd.Page])>>
         /\ pending' = Without(i)
    /\ UNCHANGED <<m, booksDir, quit, args, result>>

\* the runtime finds the map read and written at once and ends the
\* program (fatal error: concurrent map iteration and map write)
SaveCrashes ==
    /\ Running
    /\ \E i \in 1..Len(pending) : pending[i].raced
    /\ quit' = TRUE
    /\ UNCHANGED <<m, pending, booksDir, stateFile, args, result>>

NextSaves ==
    \/ ReaderMoves
    \/ WindowResized
    \/ SaveReads
    \/ SaveWritten
    \/ SaveCrashes

SpecSaves == InitSaves /\ [][NextSaves]_vars

\* C27: once every save that was dispatched has been written, the state
\* file holds the state of the save dispatched last, which is the state of
\* the model: every change of the position dispatches a save
C27_LastSaveWins ==
    pending = <<>> => stateFile = <<saveState(m.state)>>

\* C28: a save in flight reads the Pages map as it was when the save was
\* dispatched, and the loop never writes the map while a save reads it
C28_SavesReadSnapshots ==
    \A i \in 1..Len(pending) :
        /\ ~pending[i].raced
        /\ pending[i].reading => pending[i].seen = pending[i].snapshot

(***************************************************************************)
(* Properties of the update loop                                           *)
(***************************************************************************)
\* C1: whenever the current book has at least one page, the page index is
\* within the page list: 0 <= state.Page <= len(currentBook.Pages) - 1
C1_PageInRange ==
    Len(m.currentBook.Pages) > 0
        => m.state.Page \in 0..(Len(m.currentBook.Pages) - 1)

\* C5: whenever a book is open, its pages are the pagination of its
\* chapters at the model's current page width and page lines
C5_PagesMatchGeometry ==
    Len(m.currentBook.Chapters) > 0
        => m.currentBook.Pages =
               buildBookPagesForSize(m.currentBook, m.pageWidth, m.pageLines)[1]

\* the messages of a search or a load that failed
FailureMsgs ==
    {[type |-> "books", items |-> <<>>, err |-> "unexpected status"],
     BookLoadedMsg(NoBook, <<>>, "unexpected status"),
     BookLoadedMsg(NoBook, <<>>, "no such file")}

\* C18: in every state of the loop, Update of a booksMsg or a bookLoadedMsg
\* that carries an error returns no command and the same model but for the
\* status, which is the error's text, and the error kept
C18_FailureOnlySetsStatus ==
    \A msg \in FailureMsgs :
        /\ Update(m, msg, 0, booksDir).cmd = NoCmd
        /\ Update(m, msg, 0, booksDir).m = [m EXCEPT !.err = msg.err,
                                                     !.status = msg.err]

\* a failed load was delivered to a reader: the book is still open, the
\* status shows the error and nothing is in flight
C18_Witness ==
    /\ m.status = "unexpected status"
    /\ m.err = "unexpected status"
    /\ m.mode = "modeBooks"
    /\ Len(m.currentBook.Pages) > 0
    /\ m.state.Page > 0
    /\ pending = <<>>

\* the keys of the loop that are letters
TypedKeys == KeysIn("modeAuthorSearch") \cap RuneKeys

\* C20: in author-search mode a letter key, "b" and "q" too, is appended to
\* the prefix and the list is filtered again, the mode stays author search
\* and the program does not quit; no key but Enter starts a search
C20_TypingFilters ==
    (Running /\ m.mode = "modeAuthorSearch") =>
        \A sel \in Cursor(m.authorList) :
            /\ \A key \in TypedKeys :
                 /\ Update(m, KeyMsg(key), sel, booksDir).m.authorInput
                        = Append(m.authorInput, key)
                 /\ Update(m, KeyMsg(key), sel, booksDir).m.authorList
                        = authorItems(m, Append(m.authorInput, key))
                 /\ Update(m, KeyMsg(key), sel, booksDir).m.mode = "modeAuthorSearch"
                 /\ Update(m, KeyMsg(key), sel, booksDir).cmd # QuitCmd
            /\ \A key \in Keys \ {"enter"} :
                 Update(m, KeyMsg(key), sel, booksDir).cmd.type # "fetchBooks"

\* the messages that can change the page width and the page lines
GeometryMsgs ==
    {[type |-> "windowSize", width |-> size[1], height |-> size[2]] :
        size \in WindowSizes} \cup {KeyMsg("+"), KeyMsg("-")}

\* C15: whenever Update changes the geometry and the book had no pages
\* before, the page index after the change is 0
C15_ZeroTotalResets ==
    \A msg \in GeometryMsgs :
        (/\ Len(m.currentBook.Pages) = 0
         /\ <<Update(m, msg, 0, booksDir).m.pageWidth,
              Update(m, msg, 0, booksDir).m.pageLines>>
                # <<m.pageWidth, m.pageLines>>)
            => Update(m, msg, 0, booksDir).m.state.Page = 0

\* C17: in every state of the loop the font scale is within -5..5 and the
\* page width and page lines are those of the window and that font scale
C17_FontScaleInRange ==
    /\ m.fontScale \in -MaxFontScale..MaxFontScale
    /\ <<m.pageWidth, m.pageLines>>
           = computePageLayout(m.width, m.height, m.fontScale)

\* the reader is at the largest font scale, in a window whose size is
\* known, and "+" leaves it there
C17_Witness ==
    /\ m.mode = "modeReader"
    /\ m.width > 0
    /\ m.fontScale = MaxFontScale
    /\ Update(m, KeyMsg("+"), 0, booksDir).m.fontScale = MaxFontScale
    /\ Update(m, KeyMsg("+"), 0, booksDir).cmd.type = "saveState"

\* a chapter without its StartPage
TitleAndText(chapter) == [Title |-> chapter.Title, Text |-> chapter.Text]

TitlesAndTexts(book) ==
    [i \in 1..Len(book.Chapters) |-> TitleAndText(book.Chapters[i])]

\* mm with the fields a geometry change may write taken from old
WithGeometryOf(mm, old) ==
    [mm EXCEPT !.width = old.width, !.height = old.height,
               !.fontScale = old.fontScale,
               !.pageWidth = old.pageWidth, !.pageLines = old.pageLines,
               !.state.Page = old.state.Page,
               !.currentBook.Pages = old.currentBook.Pages,
               !.currentBook.Chapters = old.currentBook.Chapters]

\* C25: when Update of a window size or of a font key changes the
\* geometry, the model differs from the one before in the window, the font
\* scale, the geometry, the page index, the pages and the chapters only,
\* and the chapters have the titles and texts they had, in the same order;
\* in every state the open book has the title, the chapter titles and the
\* chapter texts its file gives, however often it was paginated again.
C25_RepaginationFrame ==
    /\ \A msg \in GeometryMsgs :
         <<Update(m, msg, 0, booksDir).m.pageWidth,
           Update(m, msg, 0, booksDir).m.pageLines>> # <<m.pageWidth, m.pageLines>>
            => /\ WithGeometryOf(Update(m, msg, 0, booksDir).m, m) = m
               /\ TitlesAndTexts(Update(m, msg, 0, booksDir).m.currentBook)
                      = TitlesAndTexts(m.currentBook)
    /\ Len(m.currentBook.Chapters) > 0
         => /\ m.currentBook.Title
                  = LoadedBook(BaseName(m.state.CurrentBook), pageLineWidth,
                               pageLineCount).Title
            /\ TitlesAndTexts(m.currentBook)
                  = TitlesAndTexts(LoadedBook(BaseName(m.state.CurrentBook),
                                              pageLineWidth, pageLineCount))

\* the reader of a book of two chapters, paginated again before (the font
\* scale is not 0), where a font key changes the pages once more
C25_Witness ==
    /\ m.mode = "modeReader"
    /\ m.fontScale < 0
    /\ m.width > 0
    /\ Len(m.currentBook.Chapters) = 2
    /\ Update(m, KeyMsg("-"), 0, booksDir).m.currentBook.Pages
           # m.currentBook.Pages

NextKeys == {"enter", " ", "right", "down", "pgdown"}
PrevKeys == {"left", "up", "pgup"}

\* where a navigation key takes the page index of the reader
PageAfter(mm, key) ==
    IF key \in NextKeys /\ mm.state.Page < Len(mm.currentBook.Pages) - 1
    THEN mm.state.Page + 1
    ELSE IF key \in PrevKeys /\ mm.state.Page > 0 THEN mm.state.Page - 1
    ELSE IF key = "home" THEN 0
    ELSE IF key = "end" /\ Len(mm.currentBook.Pages) > 0
    THEN Len(mm.currentBook.Pages) - 1
    ELSE mm.state.Page

\* C23: in reader mode a next key adds 1 to the page index when it is
\* below len(pages) - 1, a prev key takes 1 from it when it is above 0,
\* home makes it 0, end makes it len(pages) - 1 when there are pages, and
\* the index is unchanged otherwise; a key that changes the index stores
\* it in state.Pages[CurrentBook] and returns a save of the new state;
\* nothing but state.Page and that entry of state.Pages is changed.
C23_ReaderNavigation ==
    m.mode = "modeReader" =>
        \A key \in NextKeys \cup PrevKeys \cup {"home", "end"} :
            /\ Update(m, KeyMsg(key), 0, booksDir).m.state.Page = PageAfter(m, key)
            /\ [Update(m, KeyMsg(key), 0, booksDir).m EXCEPT !.state = m.state] = m
            /\ Update(m, KeyMsg(key), 0, booksDir).m.state.CurrentBook
                   = m.state.CurrentBook
            /\ \A path \in DOMAIN m.state.Pages \ {m.state.CurrentBook} :
                   MapGet(Update(m, KeyMsg(key), 0, booksDir).m.state.Pages, path)
                       = m.state.Pages[path]
            /\ PageAfter(m, key) # m.state.Page
                   => /\ MapGet(Update(m, KeyMsg(key), 0, booksDir).m.state.Pages,
                                m.state.CurrentBook) = PageAfter(m, key)
                      /\ Update(m, KeyMsg(key), 0, booksDir).cmd
                            = saveStateCmd(Update(m, KeyMsg(key), 0, booksDir).m.state)

\* the reader on the last of three pages or more, which a next key leaves
\* there and a prev key leaves for the page before
C23_Witness ==
    /\ m.mode = "modeReader"
    /\ Len(m.currentBook.Pages) >= 3
    /\ m.state.Page = Len(m.currentBook.Pages) - 1
    /\ MapGet(m.state.Pages, m.state.CurrentBook) = m.state.Page
    /\ Update(m, KeyMsg("right"), 0, booksDir).m = m
    /\ Update(m, KeyMsg("left"), 0, booksDir).m.state.Page = m.state.Page - 1

\* C24: chapters mode is entered only with a book that has a chapter;
\* the chapter list has one item for each chapter of the open book, in
\* order; Enter on item i makes the page index chapters[i].StartPage of
\* the book as it is paginated now, which is an index of its pages, the
\* page there opens with the chapter's title, the index is stored in
\* state.Pages[CurrentBook] and the mode is reader.
C24_ChapterJump ==
    m.mode = "modeChapters" =>
        /\ Len(m.currentBook.Chapters) >= 1
        /\ Len(m.chapterList) = Len(m.currentBook.Chapters)
        /\ \A i \in 1..Len(m.chapterList) :
             /\ Update(m, KeyMsg("enter"), i, booksDir).m.state.Page
                    = m.currentBook.Chapters[i].StartPage
             /\ m.currentBook.Chapters[i].StartPage \in
                    0..(Len(m.currentBook.Pages) - 1)
             /\ HasPrefix(m.currentBook.Pages[m.currentBook.Chapters[i].StartPage + 1],
                          m.currentBook.Chapters[i].Title)
             /\ MapGet(Update(m, KeyMsg("enter"), i, booksDir).m.state.Pages,
                       m.state.CurrentBook) = m.currentBook.Chapters[i].StartPage
             /\ Update(m, KeyMsg("enter"), i, booksDir).m.mode = "modeReader"
             /\ Update(m, KeyMsg("enter"), i, booksDir).m.currentBook = m.currentBook

\* the chapter list of a book whose second chapter starts at another page
\* than when the list was built: the geometry has changed since
C24_Witness ==
    /\ m.mode = "modeChapters"
    /\ Len(m.currentBook.Chapters) = 2
    /\ m.fontScale # 0
    /\ m.currentBook.Chapters[2].StartPage
           # LoadedBook(BaseName(m.state.CurrentBook), pageLineWidth,
                        pageLineCount).Chapters[2].StartPage
    /\ Update(m, KeyMsg("enter"), 2, booksDir).m.state.Page
           = m.currentBook.Chapters[2].StartPage

\* C26: whenever a book is open, the position stored for it,
\* state.Pages[state.CurrentBook] (0 when the key is absent), is the page
\* index state.Page
C26_StoredPositionTracksCursor ==
    Len(m.currentBook.Chapters) > 0
        => MapGet(m.state.Pages, m.state.CurrentBook) = m.state.Page

(***************************************************************************)
(* Library functions under check.  The function's arguments are args, its  *)
(* result is <<>> before the call and <<value>> after it; the update loop  *)
(* is not running.                                                         *)
(***************************************************************************)
NotRunning ==
    /\ m = <<>>
    /\ pending = <<>>
    /\ booksDir = <<>>
    /\ stateFile = <<>>
    /\ quit = FALSE

Returns(value) ==
    /\ result = <<>>
    /\ result' = <<value>>
    /\ UNCHANGED <<m, pending, booksDir, stateFile, quit, args>>

\* ---- remapPage -------------------------------------------------------
MaxTotal == 24

InitRemap ==
    /\ NotRunning
    /\ args \in (0..MaxTotal) \X (1..MaxTotal) \X (1..MaxTotal)
    /\ result = <<>>

CallRemapPage == Returns(remapPage(args[1], args[2], args[3]))

SpecRemap == InitRemap /\ [][CallRemapPage]_vars

\* clamp(floor(oldPage * newTotal / oldTotal), 0, newTotal - 1) in integers
ExactRemap(oldPage, oldTotal, newTotal) ==
    Max(0, Min(newTotal - 1, (oldPage * newTotal) \div oldTotal))

\* C3: for oldPage >= 0 and positive totals, remapPage returns the exact
\* integer clamp(floor(oldPage * newTotal / oldTotal), 0, newTotal - 1); in
\* particular remapPage(p, T, T) = p for 0 <= p < T.
C3_RemapIsExactFloor ==
    result # <<>> =>
        /\ result[1] = ExactRemap(args[1], args[2], args[3])
        /\ (args[2] = args[3] /\ args[1] < args[2]) => result[1] = args[1]

\* ceil(a / b) for b > 0
CeilDiv(a, b) == (a + b - 1) \div b

\* C16: for all T > 0 and T2 > 0, remapPage(0, T, T2) = 0; the last page
\* maps near the end, T2 - ceil(T2 / T) <= remapPage(T - 1, T, T2) <= T2 - 1;
\* and for every oldPage >= 0 the result lies in 0..T2-1.
C16_RemapBoundaries ==
    result # <<>> =>
        /\ args[1] = 0 => result[1] = 0
        /\ args[1] = args[2] - 1 =>
             /\ args[3] - CeilDiv(args[3], args[2]) <= result[1]
             /\ result[1] <= args[3] - 1
        /\ result[1] \in 0..(args[3] - 1)

\* the last page of a book was remapped to a longer book
C16_Witness ==
    /\ result # <<>>
    /\ args[2] >= 2
    /\ args[1] = args[2] - 1
    /\ args[3] > args[2]
    /\ result[1] < args[3] - 1

\* ---- computePageLayout -----------------------------------------------
MaxWidth == 70
MaxHeight == 30

InitLayout ==
    /\ NotRunning
    /\ args \in (0..MaxWidth) \X (0..MaxHeight) \X (-MaxFontScale..MaxFontScale)
    /\ result = <<>>

CallComputePageLayout == Returns(computePageLayout(args[1], args[2], args[3]))

SpecLayout == InitLayout /\ [][CallComputePageLayout]_vars

BaseWidth == IF args[1] > 0 THEN args[1] - 4 ELSE 80
BaseLines == IF args[2] > 0 THEN args[2] - 8 ELSE 25

\* C4 as stated: for every viewport and every scale in [-5, 5] the layout is
\* line_width = max(20, base_width - 4*scale) and lines_per_page =
\* max(5, base_lines - 2*scale): the floors are 20 columns and 5 lines.
C4_FloorsAre20And5 ==
    result # <<>> =>
        result[1] = <<Max(20, BaseWidth - 4 * args[3]),
                      Max(5, BaseLines - 2 * args[3])>>

\* C4: the layout is line_width = max(40, base_width - 4*scale) and
\* lines_per_page = max(10, base_lines - 2*scale), with base_width = width-4
\* if width > 0 else 80 and base_lines = height-8 if height > 0 else 25: the
\* floors are 40 columns and 10 lines.
C4_FloorsAre40And10 ==
    result # <<>> =>
        result[1] = <<Max(40, BaseWidth - 4 * args[3]),
                      Max(10, BaseLines - 2 * args[3])>>

\* a layout was computed for a viewport whose derived geometry lies between
\* the two pairs of floors
C4_Witness ==
    /\ result # <<>>
    /\ BaseWidth - 4 * args[3] \in 20..39
    /\ BaseLines - 2 * args[3] \in 5..9
    /\ result[1] = <<40, 10>>

\* ---- stripTags --------------------------------------------------------
MaxMarkup == 6

MarkupRunes == {"<", ">", "a", " "}

Markups == UNION {[1..n -> MarkupRunes] : n \in 0..MaxMarkup}

InitTags ==
    /\ NotRunning
    /\ args \in Markups
    /\ result = <<>>

CallStripTags == Returns(stripTags(args))

SpecTags == InitTags /\ [][CallStripTags]_vars

\* position i is read outside a tag: every "<" before it is followed,
\* still before it, by a ">"
OutsideTag(s, i) ==
    \A j \in 1..(i - 1) :
        s[j] = "<" => \E k \in (j + 1)..(i - 1) : s[k] = ">"

\* the runes of s from position i on that are not angle brackets and are
\* read outside a tag, in their order
RECURSIVE TextOutside(_, _)
TextOutside(s, i) ==
    IF i > Len(s) THEN <<>>
    ELSE (IF s[i] \notin {"<", ">"} /\ OutsideTag(s, i) THEN <<s[i]>> ELSE <<>>)
         \o TextOutside(s, i + 1)

\* C19: for every input, malformed markup included, stripTags ends with a
\* result that holds neither "<" nor ">" and is exactly the runes read
\* outside a tag, in their order: what lies between a "<" and the next ">"
\* is dropped, and an unclosed "<" drops the rest of the input.
C19_TagStripper ==
    result # <<>> =>
        /\ \A i \in 1..Len(result[1]) : result[1][i] \notin {"<", ">"}
        /\ result[1] = TextOutside(args, 1)
        /\ \A i \in 1..Len(args) :
             (args[i] = "<" /\ \A k \in (i + 1)..Len(args) : args[k] # ">")
                 => Len(result[1]) <= i - 1

\* markup with a stray ">", a "<" inside a tag and an unclosed "<" at its
\* end, with text kept and text dropped
C19_Witness ==
    /\ result # <<>>
    /\ args = <<">", "a", "<", "<", "a", "<">>
    /\ result[1] = <<"a">>

\* ---- wrapParagraph ----------------------------------------------------
MaxWords == 3
MaxLineWidth == 5

\* words of display width 1, 2, 4 and 0
ParagraphWords ==
    {<<"a">>, <<"b", "c">>, <<"U+4E16", "U+4E16">>, <<"U+0301">>}

Paragraphs == UNION {[1..n -> ParagraphWords] : n \in 1..MaxWords}

\* args: the words of the paragraph, which a space separates, and the width
InitWrap ==
    /\ NotRunning
    /\ args \in [words : Paragraphs, width : 0..MaxLineWidth]
    /\ result = <<>>

CallWrapParagraph == Returns(wrapParagraph(Join(args.words, <<" ">>), args.width))

SpecWrap == InitWrap /\ [][CallWrapParagraph]_vars

\* the lines of the wrapped paragraph
WrappedLines == Split(result[1], Newline)

RECURSIVE Flatten(_, _)
Flatten(seqs, i) == IF i > Len(seqs) THEN <<>> ELSE seqs[i] \o Flatten(seqs, i + 1)

\* the words of the lines, line after line
WrappedWords == Flatten([k \in 1..Len(WrappedLines) |-> Fields(WrappedLines[k])], 1)

\* C12: for every paragraph and every line width, each line wrapParagraph
\* emits has display width <= the line width or is exactly one word whose
\* own width exceeds it, and no word is split: the words of the lines are
\* the words of the paragraph.
C12_WrapBound ==
    result # <<>> =>
        /\ \A k \in 1..Len(WrappedLines) :
             \/ StringWidth(WrappedLines[k]) <= args.width
             \/ /\ \E i \in 1..Len(args.words) : WrappedLines[k] = args.words[i]
                /\ StringWidth(WrappedLines[k]) > args.width
        /\ WrappedWords = args.words

\* ---- the pages of one chapter -----------------------------------------
MaxParagraphs == 6

LongWord == [i \in 1..12 |-> "x"]

\* a paragraph and the display lines it wraps to at a width of 20 to 24:
\* two words that fit one line, or two words that do not
BodyParagraphs ==
    {[text |-> <<"a", " ", "a">>, lines |-> 1],
     [text |-> LongWord \o <<" ">> \o LongWord, lines |-> 2]}

ChapterTitles == {<<>>, <<"T">>}

\* width and lines: at the floors, below them, zero, negative, above them
ChapterGeometries == {<<20, 5>>, <<3, 2>>, <<0, 0>>, <<-3, -1>>, <<24, 6>>}

Bodies == UNION {[1..n -> BodyParagraphs] : n \in 0..MaxParagraphs}

\* args: the chapter's title, the paragraphs of its body and the geometry
InitPages ==
    /\ NotRunning
    /\ args \in [title : ChapterTitles, body : Bodies, geometry : ChapterGeometries]
    /\ result = <<>>

BodyText == Join([i \in 1..Len(args.body) |-> args.body[i].text], paragraphBreak)

\* the pages of a book of the one chapter
CallBuildBookPagesForSize ==
    Returns(buildBookPagesForSize(
                [Title |-> args.title,
                 Chapters |-> <<[Title |-> args.title, Text |-> BodyText,
                                 StartPage |-> 0]>>,
                 Pages |-> <<>>],
                args.geometry[1], args.geometry[2])[1])

SpecPages == InitPages /\ [][CallBuildBookPagesForSize]_vars

LinesPerPage == Max(MinBuildLines, args.geometry[2])

\* the display lines each paragraph of the chapter's text fills, the title
\* first when there is one
PartLines ==
    (IF args.title = <<>> THEN <<>> ELSE <<1>>)
    \o [i \in 1..Len(args.body) |-> args.body[i].lines]

\* the display lines of the chapter's wrapped text: TRUE for a line of
\* text, FALSE for the blank line between two paragraphs
RECURSIVE LineKindsFrom(_)
LineKindsFrom(i) ==
    IF i > Len(PartLines) THEN <<>>
    ELSE (IF i > 1 THEN <<FALSE>> ELSE <<>>)
         \o [j \in 1..PartLines[i] |-> TRUE] \o LineKindsFrom(i + 1)

LineKinds == LineKindsFrom(1)

\* the display lines of a page: none for the empty page
DisplayLines(page) == IF page = <<>> THEN 0 ELSE Len(Split(page, Newline))

\* the k-th group of LinesPerPage display lines
Group(k) == ((k - 1) * LinesPerPage + 1)..Min(k * LinesPerPage, Len(LineKinds))

TextLinesOf(k) == {j \in Group(k) : LineKinds[j]}

\* C13 as stated: with N the display lines of the chapter's wrapped text,
\* blank separator lines included, there are ceil(N / lines_per_page)
\* pages, every page but the last has exactly lines_per_page display lines
\* and the last has between 1 and lines_per_page.
C13_PagesAreFullGroups ==
    result # <<>> =>
        /\ Len(result[1]) = CeilDiv(Len(LineKinds), LinesPerPage)
        /\ \A k \in 1..(Len(result[1]) - 1) :
             DisplayLines(result[1][k]) = LinesPerPage
        /\ Len(result[1]) > 0 =>
             DisplayLines(result[1][Len(result[1])]) \in 1..LinesPerPage

\* C13, amended: there are ceil(N / lines_per_page) pages and page k is
\* the k-th group of lines_per_page display lines (the last group has what
\* is left) without the blank separator lines that open or close the
\* group: it runs from the group's first line of text to its last, so it
\* has at most lines_per_page display lines.
C13_PagesAreTrimmedGroups ==
    result # <<>> =>
        /\ Len(result[1]) = CeilDiv(Len(LineKinds), LinesPerPage)
        /\ \A k \in 1..Len(result[1]) :
             /\ DisplayLines(result[1][k]) <= LinesPerPage
             /\ DisplayLines(result[1][k]) =
                    IF TextLinesOf(k) = {} THEN 0
                    ELSE LastOf(TextLinesOf(k)) - FirstOf(TextLinesOf(k)) + 1

\* a chapter of three pages whose second group opens and closes with a
\* separator line
C13_Witness ==
    /\ result # <<>>
    /\ Len(result[1]) = 3
    /\ LinesPerPage = 5
    /\ ~LineKinds[6] /\ ~LineKinds[10]
    /\ DisplayLines(result[1][2]) = 3

EffectiveWidth == Max(MinBuildWidth, args.geometry[1])

\* C21: for every chapter and every width and lines, zero and negative
\* too, buildBookPagesForSize returns, its pages are those of the width
\* max(20, width) and the lines max(5, lines), and the pages are the
\* ceil(N / max(5, lines)) groups of the N display lines: the grouping
\* loop goes forward by max(5, lines) > 0 lines a page.
C21_NeverFailsOnGeometry ==
    result # <<>> =>
        /\ result[1] =
               buildBookPagesForSize(
                   [Title |-> args.title,
                    Chapters |-> <<[Title |-> args.title, Text |-> BodyText,
                                    StartPage |-> 0]>>,
                    Pages |-> <<>>],
                   EffectiveWidth, LinesPerPage)[1]
        /\ LinesPerPage > 0
        /\ Len(result[1]) = CeilDiv(Len(LineKinds), LinesPerPage)

\* a chapter of more than one page laid out for a negative width and a
\* negative number of lines
C21_Witness ==
    /\ result # <<>>
    /\ args.geometry[1] < 0 /\ args.geometry[2] < 0
    /\ Len(result[1]) > 1
    /\ DisplayLines(result[1][1]) = MinBuildLines

\* C14: for every chapter title, empty or not, and every geometry, a
\* chapter whose body text is empty contributes no page.
C14_EmptyBodyNoPages ==
    (result # <<>> /\ args.body = <<>>) => result[1] = <<>>

\* ---- the boilerplate markers -------------------------------------------
Stars == <<"*", "*", "*">>

\* "*** START OF THE PROJECT GUTENBERG EBOOK X ***" and the END line, in
\* capitals or, when lower, in small letters
MarkerLine(marker, x, lower) ==
    Stars \o <<" ">>
    \o (IF lower THEN ToLower(marker \o <<" ", "E", "B", "O", "O", "K", " ">> \o x)
        ELSE marker \o <<" ", "E", "B", "O", "O", "K", " ">> \o x)
    \o <<" ">> \o Stars

Prefixes == {<<>>, <<"p", " ">>, <<"p", "\n">>, <<"p", "\n", "\n", "q", "\n">>}

MarkedBodies == {<<" ", "b", " ">>, <<"b", "\n", "\n", "c">>, <<"\n", "b", " ", "c", "\n">>}

Suffixes == {<<>>, <<" ", "s">>, <<"\n", "s", "\n">>}

EbookNames == {<<"X">>, <<"x", " ", "y">>}

\* args: the texts around the two marker lines and the letter case of the
\* markers
InitMarked ==
    /\ NotRunning
    /\ args \in [prefix : Prefixes, body : MarkedBodies, suffix : Suffixes,
                 x : EbookNames, lower : BOOLEAN]
    /\ result = <<>>

MarkedText ==
    args.prefix \o MarkerLine(StartMarker, args.x, args.lower) \o args.body
    \o MarkerLine(EndMarker, args.x, args.lower) \o args.suffix

CallCleanHTMLToText == Returns(cleanHTMLToText(MarkedText))

SpecMarked == InitMarked /\ [][CallCleanHTMLToText]_vars

\* C11: for PREFIX, BODY and SUFFIX without a marker, the extraction of
\* PREFIX + "*** START OF THE PROJECT GUTENBERG EBOOK X ***" + BODY +
\* "*** END OF THE PROJECT GUTENBERG EBOOK X ***" + SUFFIX is exactly the
\* trimmed BODY, whatever the letter case of the markers.
C11_BoilerplateRoundTrip ==
    result # <<>> => result[1] = TrimSpace(args.body)

\* ---- the author index ------------------------------------------------
MaxAuthors == 3

AuthorNames ==
    {<<"A">>, <<"a", "b">>, <<"A", "b">>, <<"b">>, <<"B", " ", "a">>}

Queries ==
    {<<>>, <<" ", "\t">>, <<"a">>, <<"A">>, <<" ", "a", "B", " ">>, <<"b">>,
     <<"z", "z">>}

Limits == {-1, 0, 1, 200}

AuthorLists ==
    UNION {[1..n -> AuthorNames] : n \in 0..MaxAuthors}

\* args: the names given, the query and limit of the last search;
\* result: <<>>, then <<index>>, then <<index, found>> after a search
InitIndex ==
    /\ NotRunning
    /\ args \in [authors : AuthorLists, prefix : {<<>>}, limit : {0}]
    /\ result = <<>>

\* newModel builds the index from the names given
BuildIndex ==
    /\ result = <<>>
    /\ result' = <<[authors |-> args.authors,
                    authorsLower |-> authorsLowerOf(args.authors)]>>
    /\ UNCHANGED <<m, pending, booksDir, stateFile, quit, args>>

CallFilterAuthors ==
    /\ result # <<>>
    /\ \E q \in Queries, limit \in Limits :
         /\ args' = [args EXCEPT !.prefix = q, !.limit = limit]
         /\ result' = <<result[1],
                        filterAuthors(result[1].authors, result[1].authorsLower,
                                      q, limit)>>
    /\ UNCHANGED <<m, pending, booksDir, stateFile, quit>>

NextIndex == BuildIndex \/ CallFilterAuthors

SpecIndex == InitIndex /\ [][NextIndex]_vars

Built == Len(result) >= 1
Searched == Len(result) = 2

\* keys ascending, as sort.Search needs them
SortedKeys(keys) ==
    \A i \in 1..(Len(keys) - 1) : ~StrLess(keys[i + 1], keys[i])

Query == TrimSpace(ToLower(args.prefix))

\* the display names of the entries whose key has the query as a prefix, in
\* index order
RECURSIVE MatchingFrom(_, _)
MatchingFrom(idx, i) ==
    IF i > Len(idx.authors) THEN <<>>
    ELSE (IF HasPrefix(idx.authorsLower[i], Query) THEN <<idx.authors[i]>> ELSE <<>>)
         \o MatchingFrom(idx, i + 1)

MatchingNames == MatchingFrom(result[1], 1)

\* C6: over an index with ascending lowercased keys parallel to the names,
\* a query that is not empty after trimming and a limit > 0 give exactly the
\* names of all entries whose key has the query as a prefix, in key order,
\* cut to the first `limit` of them.
C6_PrefixLookupResult ==
    (Searched /\ SortedKeys(result[1].authorsLower) /\ Query # <<>>
     /\ args.limit > 0) =>
        /\ ~result[2].panic
        /\ result[2].items =
               SubSeq(MatchingNames, 1, Min(args.limit, Len(MatchingNames)))

\* a search over a sorted index that has more matches than the limit, the
\* first of them not the first entry
C6_Witness ==
    /\ Searched
    /\ SortedKeys(result[1].authorsLower)
    /\ Query # <<>>
    /\ args.limit > 0
    /\ Len(MatchingNames) > args.limit
    /\ ~HasPrefix(result[1].authorsLower[1], Query)
    /\ Len(result[2].items) = args.limit

\* C7: for any list of names, in any order and letter case, the index built
\* has keys sorted ascending, as many keys as names, key[i] the lowercase of
\* name[i], and a search leaves both sequences as they were.
C7_IndexIsSorted ==
    Built =>
        /\ SortedKeys(result[1].authorsLower)
        /\ Len(result[1].authorsLower) = Len(result[1].authors)
        /\ \A i \in 1..Len(result[1].authors) :
             result[1].authorsLower[i] = ToLower(result[1].authors[i])
        /\ result[1].authors = args.authors

\* C8: for every non-empty query and every limit <= 0, filterAuthors
\* completes normally and returns all entries whose key has the query as a
\* prefix, none cut off.
C8_NonPositiveLimitIsUnbounded ==
    (Searched /\ SortedKeys(result[1].authorsLower) /\ Query # <<>>
     /\ args.limit <= 0) =>
        /\ ~result[2].panic
        /\ result[2].items = MatchingNames

\* C9: whatever the index holds and whatever the limit, a query that is
\* empty or only whitespace returns an empty result.
C9_EmptyQueryMatchesNothing ==
    (Searched /\ Query = <<>>) =>
        /\ ~result[2].panic
        /\ result[2].items = <<>>

\* a whitespace query was run against an index that is not empty
C9_Witness ==
    /\ Searched
    /\ args.prefix # <<>>
    /\ Query = <<>>
    /\ Len(result[1].authors) > 0
    /\ result[2].items = <<>>

\* ---- loading and re-paginating a book --------------------------------
MaxSections == 3

\* a section of a document: a heading (level 0: none) and the markup after
\* it, which holds no level 1-3 heading
Sections ==
    {[level |-> 1, open |-> <<"<", "h", "1", ">">>, inner |-> <<"A">>,
      close |-> <<"<", "/", "h", "1", ">">>,
      body |-> <<"<", "p", ">", "x", "<", "/", "p", ">", "<", "p", ">", "y",
                 "<", "/", "p", ">", "z">>],
     [level |-> 2, open |-> <<"<", "h", "2", ">">>, inner |-> <<>>,
      close |-> <<"<", "/", "h", "2", ">">>,
      body |-> <<"w", "&", "a", "m", "p", ";">>],
     [level |-> 3, open |-> <<"<", "H", "3", " ", "i", "d", "=", "c", ">">>,
      inner |-> <<"<", "i", ">", "B", "<", "/", "i", ">">>,
      close |-> <<"<", "/", "h", "3", ">">>,
      body |-> <<"<", "p", ">", " ", "<", "/", "p", ">">>],
     [level |-> 0, open |-> <<>>, inner |-> <<>>, close |-> <<>>,
      body |-> <<"t", "<", "h", "4", ">", "C", "<", "/", "h", "4", ">">>]}

\* the title element's content: none, empty, or text with markup
DocTitles ==
    {<<>>, <<<<" ">>>>, <<<<"T", "<", "b", ">", "&", "l", "t", ";", "<", "/", "b", ">">>>>}

Geometries == {<<80, 25>>, <<3, 5>>}

RenderSection(sec) == sec.open \o sec.inner \o sec.close \o sec.body

RECURSIVE RenderSections(_, _, _)
RenderSections(secs, lo, hi) ==
    IF lo > hi THEN <<>>
    ELSE RenderSection(secs[lo]) \o RenderSections(secs, lo + 1, hi)

RenderDoc(doc) ==
    (IF doc.title = <<>> THEN <<>>
     ELSE TitleOpen \o doc.title[1] \o TitleClose)
    \o RenderSections(doc.sections, 1, Len(doc.sections))

Documents ==
    [title : DocTitles,
     sections : UNION {[1..n -> Sections] : n \in 0..MaxSections}]

\* args: the document in the file and the geometry of the last build
InitLoad ==
    /\ NotRunning
    /\ args \in [doc : Documents, geometry : Geometries]
    /\ result = <<>>

CallLoadBookFromHTML ==
    Returns(loadBookFromHTML(RenderDoc(args.doc), args.geometry[1],
                             args.geometry[2]))

\* a geometry change: the open book is paginated again
Rebuilt(book, built) == [book EXCEPT !.Pages = built[1], !.Chapters = built[2]]

Repaginate ==
    /\ result # <<>>
    /\ \E g \in Geometries :
         /\ g # args.geometry
         /\ args' = [args EXCEPT !.geometry = g]
         /\ result' = <<Rebuilt(result[1],
                                buildBookPagesForSize(result[1], g[1], g[2]))>>
    /\ UNCHANGED <<m, pending, booksDir, stateFile, quit>>

NextLoad == CallLoadBookFromHTML \/ Repaginate

SpecLoad == InitLoad /\ [][NextLoad]_vars

\* the pages one chapter fills at the geometry of the last build
ChapterPageCount(ch) ==
    Len(paginate(TrimSpace(ch.Title \o paragraphBreak \o ch.Text),
                 Max(5, args.geometry[2]), Max(20, args.geometry[1])))

\* the page counts of the chapters, in order
ChapterPageCounts(chapters) ==
    [j \in 1..Len(chapters) |-> ChapterPageCount(chapters[j])]

\* C29: after the load and after every re-pagination the book has a
\* chapter, the first chapter starts at page 0, every chapter starts
\* before the next one and before the end of the pages: each has a page
\* of its own and len(pages) >= len(chapters) >= 1.
C29_EveryBookReadable ==
    result # <<>> =>
        /\ Len(result[1].Chapters) >= 1
        /\ Len(result[1].Pages) >= Len(result[1].Chapters)
        /\ result[1].Chapters[1].StartPage = 0
        /\ \A i \in 1..(Len(result[1].Chapters) - 1) :
             result[1].Chapters[i].StartPage < result[1].Chapters[i + 1].StartPage
        /\ result[1].Chapters[Len(result[1].Chapters)].StartPage
               < Len(result[1].Pages)

\* the book of a document without a title and without text: its one
\* chapter is the page "Untitled"
C29_Witness ==
    /\ result # <<>>
    /\ args.doc.title = <<>>
    /\ args.doc.sections = <<>>
    /\ Len(result[1].Chapters) = 1
    /\ result[1].Pages = <<Untitled>>

\* C22: after the load and after any number of geometry changes the book
\* is the book a load at the geometry of the last build gives, pages and
\* chapter start pages alike, and building it once more at that geometry
\* changes neither.
C22_PaginationIdempotent ==
    result # <<>> =>
        /\ result[1] = loadBookFromHTML(RenderDoc(args.doc), args.geometry[1],
                                        args.geometry[2])
        /\ buildBookPagesForSize(result[1], args.geometry[1], args.geometry[2])
               = <<result[1].Pages, result[1].Chapters>>

\* a book of two chapters or more whose pages at the other geometry are
\* not those it has
C22_Witness ==
    /\ result # <<>>
    /\ Len(result[1].Chapters) >= 2
    /\ \E g \in Geometries :
         /\ g # args.geometry
         /\ buildBookPagesForSize(result[1], g[1], g[2])[1] # result[1].Pages
         /\ buildBookPagesForSize(result[1], g[1], g[2])[2] # result[1].Chapters

\* C2: after the first build and after every re-pagination, len(pages) is
\* the sum of the chapters' page counts and chapters[i].StartPage is the sum
\* of the page counts of the chapters before i; so StartPage never
\* decreases with i and the first chapter starts at page 0.
C2_Conservation ==
    result # <<>> =>
        LET chapters == result[1].Chapters
            counts == ChapterPageCounts(chapters)
        IN  /\ Len(result[1].Pages) = SumSeq(counts)
            /\ \A i \in 1..Len(chapters) :
                 chapters[i].StartPage = SumSeq(SubSeq(counts, 1, i - 1))
            /\ \A i \in 1..(Len(chapters) - 1) :
                 chapters[i].StartPage <= chapters[i + 1].StartPage
            /\ Len(chapters) > 0 => chapters[1].StartPage = 0

\* a book of several chapters, one of them of several pages, paginated again
\* after its first build
C2_Witness ==
    /\ result # <<>>
    /\ Len(result[1].Chapters) >= 3
    /\ \E i \in 1..Len(result[1].Chapters) :
         ChapterPageCount(result[1].Chapters[i]) >= 2
    /\ result[1].Chapters[3].StartPage >= 3
    /\ args.geometry = <<3, 5>>

\* the sections that open with a level 1-3 heading
HeadingSections == {i \in 1..Len(args.doc.sections) : args.doc.sections[i].level \in 1..3}

\* the markup from the end of heading i up to the next level 1-3 heading
SpanAfter(i) ==
    LET secs == args.doc.sections
        next == FirstOf({j \in HeadingSections : j > i})
    IN  secs[i].body
        \o RenderSections(secs, i + 1, IF next = 0 THEN Len(secs) ELSE next - 1)

\* S: the level 1-3 headings whose span has cleaned text that is not empty
KeptHeading(i) ==
    /\ i \in HeadingSections
    /\ TrimSpace(cleanHTMLToText(SpanAfter(i))) # <<>>

RECURSIVE KeptFrom(_)
KeptFrom(i) ==
    IF i > Len(args.doc.sections) THEN <<>>
    ELSE (IF KeptHeading(i) THEN <<i>> ELSE <<>>) \o KeptFrom(i + 1)

SegmentHeadings == KeptFrom(1)

\* the document title, "Untitled" when the document has none
DocumentTitle ==
    IF args.doc.title = <<>> \/ cleanInlineText(args.doc.title[1]) = <<>>
    THEN Untitled
    ELSE cleanInlineText(args.doc.title[1])

\* C10: with S the level 1-3 headings, in document order, whose following
\* span has non-empty cleaned text: if |S| >= 2 the book has exactly |S|
\* chapters, in that order, titled with the headings' cleaned inner text;
\* otherwise it has exactly one chapter, its text the extraction of the whole
\* document and its title the document title, or "Untitled" without one.  No
\* loaded book has zero chapters.
C10_SegmentationAndFallback ==
    result # <<>> =>
        LET chapters == result[1].Chapters
            S == SegmentHeadings
        IN  /\ Len(chapters) > 0
            /\ Len(S) >= 2 =>
                 /\ Len(chapters) = Len(S)
                 /\ \A k \in 1..Len(S) :
                      chapters[k].Title =
                          cleanInlineText(args.doc.sections[S[k]].inner)
            /\ Len(S) <= 1 =>
                 /\ Len(chapters) = 1
                 /\ chapters[1].Text = cleanHTMLToText(RenderDoc(args.doc))
                 /\ chapters[1].Title = DocumentTitle

\* a document of three headings, one with an empty span, was loaded as two
\* chapters
C10_Witness ==
    /\ result # <<>>
    /\ Cardinality(HeadingSections) = 3
    /\ Len(SegmentHeadings) = 2
    /\ Len(result[1].Chapters) = 2

====
